---- MODULE Spec2Model ----
(***************************************************************************)
(* SparkFun Toolkit: the generic register bus (sfTkIBus), its two-wire     *)
(* refinement (sfTkII2C) and the Arduino I2C binding (sfTkArdI2C), the     *)
(* chip-select refinement (sfTkISPI) and its binding (sfTkArdSPI), the     *)
(* stream adapter (sfTkISerialBus) over the UART, and sftk_byte_swap.      *)
(*                                                                         *)
(* The specifications share the byte-order state:                          *)
(*   Spec     the I2C binding driving a TwoWire port; the chunked read is  *)
(*            modelled statement by statement (pc), the write in one step; *)
(*   SpecBus  the typed accessors of sfTkIBus over an arbitrary            *)
(*            implementation of the two pure-virtual primitives;           *)
(*   SpecFair, SpecCtor, SpecLoop, SpecSwap, SpecArd, SpecInit, SpecSPI,   *)
(*   SpecSerial, SpecUART                                                  *)
(*            are introduced where their actions are defined.              *)
(* A call's frame (arguments, locals, out-parameters, the port's trace)    *)
(* lives from the call to the step in which the caller takes the result.   *)
(***************************************************************************)
EXTENDS Integers, Sequences, FiniteSets, TLC

VARIABLES
    host,             \* what sftk_system_byteorder() detects on this machine
    _byteOrder,       \* sfTkIBus::_byteOrder
    _i2cPort,         \* sfTkArdI2C::_i2cPort ("null" or a TwoWire port)
    _address,         \* sfTkII2C::_address
    _stop,            \* sfTkII2C::_stop
    _bufferChunkSize, \* sfTkArdI2C::_bufferChunkSize
    begun,            \* the TwoWire ports on which begin() has been called
    pc,               \* position of the running call ("idle": none)
    call,             \* the running call and its arguments
    numBytes,         \* readRegisterRegionAnyAddress: size_t numBytes (remaining)
    nOrig,            \* readRegisterRegionAnyAddress: uint16_t nOrig
    bFirstInter,      \* readRegisterRegionAnyAddress: bool bFirstInter
    nCopied,          \* bytes stored through *data++ so far
    readBytes,        \* the caller's size_t behind the reference readBytes
    retval,           \* the value the call returned
    wire,             \* the calls made on the TwoWire port during this call
    acc,              \* SpecBus: the accessor call in progress and its arguments
    prim,             \* SpecBus: what the accessor handed to the primitive
    out,              \* SpecBus: what the accessor gave back to its caller
    mock,             \* SpecLoop: what the byte-storing transport holds
    _spiPort,         \* sfTkArdSPI::_spiPort ("null" or an SPIClass port)
    _cs,              \* sfTkISPI::_cs
    _sfeSPISettings,  \* sfTkArdSPI::_sfeSPISettings
    _uartPort,        \* sfTkArdUARTBus::_uartPort ("null" or a sfTkArdUART)
    _hwSerial,        \* sfTkArdUART::_hwSerial of that port ("null" or a stream)
    _running,         \* sfTkArdUART::_running
    hwOpen            \* the hardware serial ports begun and not ended since

vars == <<host, _byteOrder, _i2cPort, _address, _stop, _bufferChunkSize, begun,
          pc, call, numBytes, nOrig, bFirstInter, nCopied, readBytes, retval,
          wire, acc, prim, out, mock, _spiPort, _cs, _sfeSPISettings, _uartPort,
          _hwSerial, _running, hwOpen>>

cfgVars == <<_i2cPort, _address, _stop, _bufferChunkSize, begun>>
frameVars == <<pc, call, numBytes, nOrig, bFirstInter, nCopied, readBytes, retval, wire>>
busVars == <<acc, prim, out>>
spiVars == <<_spiPort, _cs, _sfeSPISettings>>
uartVars == <<_uartPort, _hwSerial, _running, hwOpen>>
extVars == <<mock, spiVars, uartVars>>

(***************************************************************************)
(* Error codes: sfTkError.h, sfTkIBus.h                                    *)
(***************************************************************************)
ksfTkErrFail == -1
ksfTkErrOk == 0
ksfTkErrBaseBus == 4096
ksfTkErrBusNotInit == ksfTkErrFail * (ksfTkErrBaseBus + 1)
ksfTkErrBusNullBuffer == ksfTkErrFail * (ksfTkErrBaseBus + 6)
ksfTkErrBusUnderRead == ksfTkErrBaseBus + 7

\* sfTkISerial.h
ksfTkErrBaseSerial == 8192
ksfTkErrSerialNotInit == ksfTkErrFail * (ksfTkErrBaseSerial + 1)
ksfTkErrSerialDataTooLong == ksfTkErrFail * (ksfTkErrBaseSerial + 4)
ksfTkErrSerialNullBuffer == ksfTkErrFail * (ksfTkErrBaseSerial + 6)
ksfTkErrSerialUnderRead == ksfTkErrBaseSerial + 7

kNoAddress == 0
kNoCSPin == 0
kDefaultBufferChunk == 32

BigEndian == 1
LittleEndian == 2
ByteOrders == {BigEndian, LittleEndian}

(***************************************************************************)
(* Integer widths                                                          *)
(***************************************************************************)
U8 == 256
U16 == 65536

ToU8(n) == n % U8
ToU16(n) == n % U16

(***************************************************************************)
(* Bounds of the model                                                     *)
(***************************************************************************)
\* reads of at most this many bytes see every short answer 0..n of the port;
\* longer reads see the port answer in full or not at all
MaxShortLen == 5
\* a read longer than uint16_t nOrig can hold
LongRead == U16
\* the chunk size a long read is run with (the largest uint8_t nChunk)
LongReadChunk == U8 - 1

ChunkSizes == {1, 2, 3, kDefaultBufferChunk, LongReadChunk, 256}
Ports == {"Wire", "Wire1"}
Addrs == {kNoAddress, 41}
\* results of TwoWire::endTransmission: 0 success, 2 NACK on address
EndResults == {0, 2}

CeilDiv(n, c) == (n + c - 1) \div c

\* the lengths a read is called with, for the bus's chunk size c
ReadLengths(c) ==
    (0 .. MaxShortLen) \cup {c - 1, c, c + 1, 3 * c, 5 * c}
        \cup (IF c = LongReadChunk THEN {LongRead} ELSE {})

\* what TwoWire::requestFrom may return when asked for n bytes in a read of
\* total bytes
Returned(n, total) == IF total <= MaxShortLen THEN 0 .. n ELSE {0, n}

(***************************************************************************)
(* TwoWire port trace                                                      *)
(***************************************************************************)
EvBegin(a) ==
    [op |-> "beginTransmission", addr |-> a, bytes |-> <<>>, n |-> 0,
     stop |-> FALSE, ret |-> 0, rem |-> 0]
EvWrite(b) ==
    [op |-> "write", addr |-> 0, bytes |-> b, n |-> Len(b),
     stop |-> FALSE, ret |-> Len(b), rem |-> 0]
EvEnd(s, r) ==
    [op |-> "endTransmission", addr |-> 0, bytes |-> <<>>, n |-> 0,
     stop |-> s, ret |-> r, rem |-> 0]
\* rem: numBytes when the request was made (not an argument of requestFrom)
EvRequest(a, k, s, r, left) ==
    [op |-> "requestFrom", addr |-> a, bytes |-> <<>>, n |-> k,
     stop |-> s, ret |-> r, rem |-> left]

Requests == SelectSeq(wire, LAMBDA e : e.op = "requestFrom")
Ends == SelectSeq(wire, LAMBDA e : e.op = "endTransmission")
Begins == SelectSeq(wire, LAMBDA e : e.op = "beginTransmission")

NoCall == [op |-> "none"]
NoBus == [op |-> "none"]

(***************************************************************************)
(* Values and their bytes in memory                                        *)
(* uint16_t: an integer 0..65535.  uint32_t: <<high half, low half>>.      *)
(***************************************************************************)
\* sftk_system_byteorder() != _byteOrder
NeedSwap == host # _byteOrder

\* uint8_t sftk_byte_swap(uint8_t i)
sftk_byte_swap8(i) == i

\* the 16-bit swap with the high byte dropped: (i << 8) only
sftk_byte_swap16_shiftonly(i) == ToU16(i * U8)

\* uint16_t sftk_byte_swap(uint16_t i): (i << 8) | (i >> 8), as a uint16_t
sftk_byte_swap16(i) == ToU16((i * U8) + (i \div U8))

\* uint32_t sftk_byte_swap(uint32_t i): the four bytes in opposite order
sftk_byte_swap32(i) == <<sftk_byte_swap16(i[2]), sftk_byte_swap16(i[1])>>

\* *(uint16_t *)&i of an int16_t, *(int16_t *)&tmp of a uint16_t
AsU16(i) == i % U16
AsI16(u) == IF u >= U16 \div 2 THEN u - U16 ELSE u

\* *(uint32_t *)&i of an int32_t, *(int32_t *)&tmp of a uint32_t
AsU32(i) == <<(i \div U16) % U16, i % U16>>
AsI32(u) == AsI16(u[1]) * U16 + u[2]

\* int16_t sftk_byte_swap(int16_t i)
sftk_byte_swap_i16(i) ==
    LET tmp == sftk_byte_swap16(AsU16(i)) IN AsI16(tmp)

\* int32_t sftk_byte_swap(int32_t i)
sftk_byte_swap_i32(i) ==
    LET tmp == sftk_byte_swap32(AsU32(i)) IN AsI32(tmp)

\* the bytes of a uint16_t object on this host, lowest address first
Mem16(v) ==
    IF host = LittleEndian THEN <<v % U8, v \div U8>> ELSE <<v \div U8, v % U8>>

\* the bytes of a uint32_t object on this host
Mem32(v) ==
    IF host = LittleEndian THEN Mem16(v[2]) \o Mem16(v[1])
                           ELSE Mem16(v[1]) \o Mem16(v[2])

\* the uint16_t / uint32_t whose object bytes are b
Val16(b) ==
    IF host = LittleEndian THEN b[1] + U8 * b[2] ELSE U8 * b[1] + b[2]
Val32(b) ==
    IF host = LittleEndian THEN <<Val16(<<b[3], b[4]>>), Val16(<<b[1], b[2]>>)>>
                           ELSE <<Val16(<<b[1], b[2]>>), Val16(<<b[3], b[4]>>)>>

RECURSIVE MemWords(_)
\* the bytes of a uint16_t array
MemWords(w) == IF w = <<>> THEN <<>> ELSE Mem16(Head(w)) \o MemWords(Tail(w))

RECURSIVE ValWords(_)
ValWords(b) ==
    IF Len(b) < 2 THEN <<>>
    ELSE <<Val16(<<b[1], b[2]>>)>> \o ValWords(SubSeq(b, 3, Len(b)))

Reverse(s) == [i \in 1 .. Len(s) |-> s[Len(s) + 1 - i]]

\* input values
Regs8 == {16}
Regs16 == {272, 10794}
Bytes == {52}
Words == {4660, 255}
DWords == {<<4660, 22136>>, <<0, 255>>}
Buffers == {<<1, 2, 3>>}
WordArrays == {<<4660, 255>>, <<43981>>}
\* what lies in memory behind a uint16_t parameter
BeyondWords == {0, 48879}
\* a data pointer: null, or a buffer of the length the call names
Pointers == {"null", "buf"}

(***************************************************************************)
(* sfTkIBus: write accessors.  Each gives the call it makes on the pure    *)
(* virtual writeRegister(uint8_t *devReg, size_t regLength,                *)
(*                       const uint8_t *data, size_t length).              *)
(***************************************************************************)
WPrim(devNull, devReg, data) ==
    [kind |-> "write", devNull |-> devNull, devReg |-> devReg,
     regLength |-> Len(devReg), data |-> data, length |-> Len(data)]

writeData_u8(data) == WPrim(TRUE, <<>>, <<data>>)

writeData_u16(data) ==
    LET d == IF NeedSwap THEN sftk_byte_swap16(data) ELSE data
    IN WPrim(TRUE, <<>>, Mem16(d))

writeData_u32(data) ==
    LET d == IF NeedSwap THEN sftk_byte_swap32(data) ELSE data
    IN WPrim(TRUE, <<>>, Mem32(d))

writeData_buf(data) == WPrim(TRUE, <<>>, data)

writeRegister_u8_u8(devReg, data) == WPrim(FALSE, <<devReg>>, <<data>>)

\* the same without the byte-order test
writeRegister_u8_u16_noswap(devReg, data) == WPrim(FALSE, <<devReg>>, Mem16(data))

writeRegister_u8_u16(devReg, data) ==
    LET value == IF NeedSwap THEN sftk_byte_swap16(data) ELSE data
    IN WPrim(FALSE, <<devReg>>, Mem16(value))

writeRegister_u8_u32(devReg, data) ==
    LET value == IF NeedSwap THEN sftk_byte_swap32(data) ELSE data
    IN WPrim(FALSE, <<devReg>>, Mem32(value))

writeRegister_u8_buf(devReg, data) == WPrim(FALSE, <<devReg>>, data)

writeRegister_u16_buf(devReg, data) ==
    LET reg == IF NeedSwap THEN sftk_byte_swap16(devReg) ELSE devReg
    IN WPrim(FALSE, Mem16(reg), data)

writeRegister_u16_u8(devReg, data) == writeRegister_u16_buf(devReg, <<data>>)

\* the same with the byte-order test inverted
writeRegister_u16_words_inverted(devReg, data) ==
    IF NeedSwap
      THEN writeRegister_u16_buf(devReg, MemWords(data))
      ELSE LET data16 == [i \in 1 .. Len(data) |-> sftk_byte_swap16(data[i])]
           IN writeRegister_u16_buf(devReg, MemWords(data16))

\* (uint16_t devReg, const uint16_t *data, size_t length)
writeRegister_u16_words(devReg, data) ==
    IF ~NeedSwap
      THEN writeRegister_u16_buf(devReg, MemWords(data))
      ELSE LET data16 == [i \in 1 .. Len(data) |-> sftk_byte_swap16(data[i])]
           IN writeRegister_u16_buf(devReg, MemWords(data16))

\* writeRegister(devReg, &data, sizeof(data)): &data is a const uint16_t *, so
\* this is the word-array overload with length 2; beyond is the uint16_t that
\* follows the parameter in memory
writeRegister_u16_u16(devReg, data, beyond) ==
    writeRegister_u16_words(devReg, <<data, beyond>>)

writeRegister_u16_u32(devReg, data) ==
    LET value == IF NeedSwap THEN sftk_byte_swap32(data) ELSE data
    IN writeRegister_u16_buf(devReg, Mem32(value))

ACall(op, reg, w, value) == [op |-> op, reg |-> reg, width |-> w, value |-> value]

\* every write accessor call of the model, with the primitive call it makes
BusWriteCalls ==
    {[acc |-> ACall("writeData_u8", 0, 1, d), prim |-> writeData_u8(d)] : d \in Bytes}
    \cup {[acc |-> ACall("writeData_u16", 0, 2, d), prim |-> writeData_u16(d)] : d \in Words}
    \cup {[acc |-> ACall("writeData_u32", 0, 4, d), prim |-> writeData_u32(d)] : d \in DWords}
    \cup {[acc |-> ACall("writeData_buf", 0, 0, d), prim |-> writeData_buf(d)] : d \in Buffers}
    \cup {[acc |-> ACall("writeRegister_u8_u8", r, 1, d), prim |-> writeRegister_u8_u8(r, d)] :
            r \in Regs8, d \in Bytes}
    \cup {[acc |-> ACall("writeRegister_u8_u16", r, 2, d), prim |-> writeRegister_u8_u16(r, d)] :
            r \in Regs8, d \in Words}
    \cup {[acc |-> ACall("writeRegister_u8_u32", r, 4, d), prim |-> writeRegister_u8_u32(r, d)] :
            r \in Regs8, d \in DWords}
    \cup {[acc |-> ACall("writeRegister_u8_buf", r, 0, d), prim |-> writeRegister_u8_buf(r, d)] :
            r \in Regs8, d \in Buffers}
    \cup {[acc |-> ACall("writeRegister_u16_buf", r, 0, d), prim |-> writeRegister_u16_buf(r, d)] :
            r \in Regs16, d \in Buffers}
    \cup {[acc |-> ACall("writeRegister_u16_u8", r, 1, d), prim |-> writeRegister_u16_u8(r, d)] :
            r \in Regs16, d \in Bytes}
    \cup {[acc |-> ACall("writeRegister_u16_u16", r, 2, d), prim |-> writeRegister_u16_u16(r, d, g)] :
            r \in Regs16, d \in Words, g \in BeyondWords}
    \cup {[acc |-> ACall("writeRegister_u16_u32", r, 4, d), prim |-> writeRegister_u16_u32(r, d)] :
            r \in Regs16, d \in DWords}
    \cup {[acc |-> ACall("writeRegister_u16_words", r, 0, d), prim |-> writeRegister_u16_words(r, d)] :
            r \in Regs16, d \in WordArrays}

(***************************************************************************)
(* sfTkIBus: read accessors over the pure virtual                          *)
(*   readRegister(uint8_t *devReg, size_t regLength, uint8_t *data,        *)
(*                size_t numBytes, size_t &readBytes).                     *)
(* rsp is the primitive's answer: its return value and the bytes it stored *)
(* at data (readBytes is their number).  Each accessor gives the primitive *)
(* call it made and what its caller gets: the return value, the caller's   *)
(* object after the call and the reported count.                           *)
(***************************************************************************)
\* return values of an implementation of the primitives
PrimRets == {ksfTkErrOk, ksfTkErrFail, ksfTkErrBusUnderRead}
\* bytes a device may answer with
DeviceData == {<<18, 52, 86, 120>>, <<255, 0, 171, 171>>}

Responses(n) ==
    {[ret |-> r, data |-> SubSeq(d, 1, k)] : r \in PrimRets, d \in DeviceData, k \in 0 .. n}

\* the caller's object (bytes before the call) after the primitive stored sup
Fill(before, sup) == sup \o SubSeq(before, Len(sup) + 1, Len(before))

RPrim(devNull, devReg, n, rsp, buf) ==
    [kind |-> "read", devNull |-> devNull, devReg |-> devReg,
     regLength |-> Len(devReg), numBytes |-> n, rsp |-> rsp, buf |-> buf]

Result(ret, value, count) == [ret |-> ret, value |-> value, count |-> count]

readRegister_u8_u8(devReg, data, rsp) ==
    LET buf == Fill(<<data>>, rsp.data)
        nRead == Len(rsp.data)
        retVal == rsp.ret
    IN [prim |-> RPrim(FALSE, <<devReg>>, 1, rsp, buf),
        out |-> Result(IF retVal = ksfTkErrOk /\ nRead = 1 THEN ksfTkErrOk ELSE retVal,
                       buf[1], nRead)]

readRegister_u8_u16(devReg, data, rsp) ==
    LET buf == Fill(Mem16(data), rsp.data)
        nRead == Len(rsp.data)
        retVal == rsp.ret
        got == Val16(buf)
        value == IF retVal = ksfTkErrOk /\ NeedSwap THEN sftk_byte_swap16(got) ELSE got
    IN [prim |-> RPrim(FALSE, <<devReg>>, 2, rsp, buf),
        out |-> Result(IF retVal = ksfTkErrOk /\ nRead = 2 THEN ksfTkErrOk ELSE retVal,
                       value, nRead)]

readRegister_u8_u32(devReg, data, rsp) ==
    LET buf == Fill(Mem32(data), rsp.data)
        nRead == Len(rsp.data)
        retVal == rsp.ret
        got == Val32(buf)
        value == IF retVal = ksfTkErrOk /\ NeedSwap THEN sftk_byte_swap32(got) ELSE got
    IN [prim |-> RPrim(FALSE, <<devReg>>, 4, rsp, buf),
        out |-> Result(IF retVal = ksfTkErrOk /\ nRead = 4 THEN ksfTkErrOk ELSE retVal,
                       value, nRead)]

\* (uint8_t devReg, uint8_t *data, size_t numBytes, size_t &readBytes); data: bytes before
readRegister_u8_buf(devReg, data, rsp) ==
    LET buf == Fill(data, rsp.data)
    IN [prim |-> RPrim(FALSE, <<devReg>>, Len(data), rsp, buf),
        out |-> Result(rsp.ret, buf, Len(rsp.data))]

\* (uint16_t devReg, uint8_t *data, size_t numBytes, size_t &readBytes)
readRegister_u16_buf(devReg, data, rsp) ==
    LET reg == IF NeedSwap THEN sftk_byte_swap16(devReg) ELSE devReg
        buf == Fill(data, rsp.data)
    IN [prim |-> RPrim(FALSE, Mem16(reg), Len(data), rsp, buf),
        out |-> Result(rsp.ret, buf, Len(rsp.data))]

readRegister_u16_u8(reg, value, rsp) ==
    LET r == readRegister_u16_buf(reg, <<value>>, rsp)
    IN [prim |-> r.prim, out |-> Result(r.out.ret, r.out.value[1], r.out.count)]

\* the same without swapping the value back
readRegister_u16_u16_noswap(reg, value, rsp) ==
    LET r == readRegister_u16_buf(reg, Mem16(value), rsp)
    IN [prim |-> r.prim, out |-> Result(r.out.ret, Val16(r.out.value), r.out.count)]

readRegister_u16_u16(reg, value, rsp) ==
    LET r == readRegister_u16_buf(reg, Mem16(value), rsp)
        retValue == r.out.ret
        got == Val16(r.out.value)
    IN [prim |-> r.prim,
        out |-> Result(retValue,
                       IF retValue = ksfTkErrOk /\ NeedSwap THEN sftk_byte_swap16(got) ELSE got,
                       r.out.count)]

readRegister_u16_u32(reg, value, rsp) ==
    LET r == readRegister_u16_buf(reg, Mem32(value), rsp)
        retValue == r.out.ret
        got == Val32(r.out.value)
    IN [prim |-> r.prim,
        out |-> Result(retValue,
                       IF retValue = ksfTkErrOk /\ NeedSwap THEN sftk_byte_swap32(got) ELSE got,
                       r.out.count)]

\* the word read with read16 left as the byte count
readRegister_u16_words_bytecount(reg, data, rsp) ==
    LET r == readRegister_u16_buf(reg, MemWords(data), rsp)
        retValue == r.out.ret
        got == ValWords(r.out.value)
        words == IF retValue = ksfTkErrOk /\ NeedSwap
                   THEN [i \in 1 .. Len(data) |-> sftk_byte_swap16(got[i])]
                   ELSE got
    IN [prim |-> r.prim, out |-> Result(retValue, words, r.out.count)]

\* (uint16_t reg, uint16_t *data, size_t length, size_t &read16); data: words before
readRegister_u16_words(reg, data, rsp) ==
    LET r == readRegister_u16_buf(reg, MemWords(data), rsp)
        retValue == r.out.ret
        got == ValWords(r.out.value)
        words == IF retValue = ksfTkErrOk /\ NeedSwap
                   THEN [i \in 1 .. Len(data) |-> sftk_byte_swap16(got[i])]
                   ELSE got
    IN [prim |-> r.prim, out |-> Result(retValue, words, r.out.count \div 2)]

RCall(a, r) == [acc |-> a, prim |-> r.prim, out |-> r.out]

\* every read accessor call of the model with the primitive's answer
BusReadCalls ==
    {RCall(ACall("readRegister_u8_u8", r, 1, d), readRegister_u8_u8(r, d, x)) :
        r \in Regs8, d \in Bytes, x \in Responses(1)}
    \cup {RCall(ACall("readRegister_u8_u16", r, 2, d), readRegister_u8_u16(r, d, x)) :
        r \in Regs8, d \in Words, x \in Responses(2)}
    \cup {RCall(ACall("readRegister_u8_u32", r, 4, d), readRegister_u8_u32(r, d, x)) :
        r \in Regs8, d \in DWords, x \in Responses(4)}
    \cup {RCall(ACall("readRegister_u8_buf", r, 0, d), readRegister_u8_buf(r, d, x)) :
        r \in Regs8, d \in Buffers, x \in Responses(3)}
    \cup {RCall(ACall("readRegister_u16_buf", r, 0, d), readRegister_u16_buf(r, d, x)) :
        r \in Regs16, d \in Buffers, x \in Responses(3)}
    \cup {RCall(ACall("readRegister_u16_u8", r, 1, d), readRegister_u16_u8(r, d, x)) :
        r \in Regs16, d \in Bytes, x \in Responses(1)}
    \cup {RCall(ACall("readRegister_u16_u16", r, 2, d), readRegister_u16_u16(r, d, x)) :
        r \in Regs16, d \in Words, x \in Responses(2)}
    \cup {RCall(ACall("readRegister_u16_u32", r, 4, d), readRegister_u16_u32(r, d, x)) :
        r \in Regs16, d \in DWords, x \in Responses(4)}
    \cup UNION {{RCall(ACall("readRegister_u16_words", r, 0, d),
                        readRegister_u16_words(r, d, x)) : x \in Responses(2 * Len(d))} :
                 r \in Regs16, d \in WordArrays}

(***************************************************************************)
(* Construction                                                            *)
(***************************************************************************)
\* nothing stored yet in the byte-storing transport
NoMock == [reg |-> <<>>, data |-> <<>>, from |-> [op |-> "none"]]

\* sfTkIBus(): _byteOrder = sftk_system_byteorder(); no call is running;
\* sfTkArdSPI(void), sfTkISPI(): no port, _cs = kNoCSPin;
\* sfTkArdUART: bool _running = false, and no serial port has been begun
InitCommon ==
    /\ host \in ByteOrders
    /\ _byteOrder = host
    /\ begun = {}
    /\ pc = "idle"
    /\ call = NoCall
    /\ numBytes = 0
    /\ nOrig = 0
    /\ bFirstInter = FALSE
    /\ nCopied = 0
    /\ readBytes = 0
    /\ retval = ksfTkErrOk
    /\ wire = <<>>
    /\ acc = NoBus
    /\ prim = NoBus
    /\ out = NoBus
    /\ mock = NoMock
    /\ _spiPort = "null"
    /\ _cs = kNoCSPin
    /\ _sfeSPISettings = "SPISettings()"
    /\ _running = FALSE
    /\ hwOpen = {}

\* sfTkArdI2C(void), sfTkII2C()
InitI2C ==
    /\ _i2cPort = "null"
    /\ _address = kNoAddress
    /\ _stop = TRUE
    /\ _bufferChunkSize = kDefaultBufferChunk

\* sfTkArdUARTBus(void)
InitUARTBus ==
    /\ _uartPort = "null"
    /\ _hwSerial = "null"

Init == InitCommon /\ InitI2C /\ InitUARTBus

(***************************************************************************)
(* Configuration                                                           *)
(***************************************************************************)
setByteOrder(order) ==
    /\ pc = "idle"
    /\ _byteOrder' = order
    /\ UNCHANGED <<extVars, host, cfgVars, frameVars, busVars>>

setAddress(devAddr) ==
    /\ pc = "idle"
    /\ _address' = devAddr
    /\ UNCHANGED <<extVars, host, _byteOrder, _i2cPort, _stop, _bufferChunkSize, begun,
                   frameVars, busVars>>

setStop(stop) ==
    /\ pc = "idle"
    /\ _stop' = stop
    /\ UNCHANGED <<extVars, host, _byteOrder, _i2cPort, _address, _bufferChunkSize, begun,
                   frameVars, busVars>>

setBufferChunkSize(theChunk) ==
    /\ pc = "idle"
    /\ _bufferChunkSize' = IF theChunk > 0 THEN theChunk ELSE _bufferChunkSize
    /\ UNCHANGED <<extVars, host, _byteOrder, _i2cPort, _address, _stop, begun,
                   frameVars, busVars>>

\* init that takes the port passed in whether or not one is bound
init_rebind(wirePort, addr, bInit) ==
    /\ pc = "idle"
    /\ _i2cPort' = wirePort
    /\ begun' = IF bInit THEN begun \cup {wirePort} ELSE begun
    /\ _address' = addr
    /\ UNCHANGED <<extVars, host, _byteOrder, _stop, _bufferChunkSize, frameVars, busVars>>

\* init(TwoWire &wirePort, uint8_t addr, bool bInit)
init(wirePort, addr, bInit) ==
    /\ pc = "idle"
    /\ IF _i2cPort = "null"
         THEN /\ _i2cPort' = wirePort
              /\ begun' = IF bInit THEN begun \cup {wirePort} ELSE begun
         ELSE UNCHANGED <<_i2cPort, begun>>
    /\ _address' = addr
    /\ UNCHANGED <<extVars, host, _byteOrder, _stop, _bufferChunkSize, frameVars, busVars>>

\* init(uint8_t addr): init(Wire, addr) when no port is bound, else nothing
init_addr(addr) ==
    /\ pc = "idle"
    /\ IF _i2cPort = "null"
         THEN /\ _i2cPort' = "Wire"
              /\ _address' = addr
         ELSE UNCHANGED <<_i2cPort, _address>>
    /\ UNCHANGED <<extVars, host, _byteOrder, _stop, _bufferChunkSize, begun, frameVars, busVars>>

\* init(void): init(address())
init_void ==
    /\ pc = "idle"
    /\ IF _i2cPort = "null"
         THEN _i2cPort' = "Wire"
         ELSE UNCHANGED _i2cPort
    /\ UNCHANGED <<extVars, host, _byteOrder, _address, _stop, _bufferChunkSize, begun,
                   frameVars, busVars>>

(***************************************************************************)
(* sfTkArdI2C::writeRegisterRegionAddress, the binding's write primitive,  *)
(* called by the sfTkIBus accessor call c                                  *)
(***************************************************************************)
\* the address sent in a transaction of its own, before the data's
WriteFrame_split(p, e) ==
    (IF ~p.devNull /\ p.regLength > 0
       THEN <<EvBegin(_address), EvWrite(p.devReg), EvEnd(TRUE, e)>> ELSE <<>>)
        \o <<EvBegin(_address), EvWrite(p.data), EvEnd(TRUE, e)>>

\* the calls on the port: beginTransmission, write(devReg), write(data), and
\* endTransmission() answering e
WriteFrame(p, e) ==
    <<EvBegin(_address)>>
        \o (IF ~p.devNull /\ p.regLength > 0 THEN <<EvWrite(p.devReg)>> ELSE <<>>)
        \o <<EvWrite(p.data), EvEnd(TRUE, e)>>

writeRegisterRegionAddress(c) ==
    /\ pc = "idle"
    /\ acc' = c.acc
    /\ prim' = c.prim
    /\ call' = [op |-> "writeRegisterRegionAddress"]
    /\ IF _i2cPort = "null"
         THEN /\ retval' = ksfTkErrBusNotInit
              /\ wire' = <<>>
         ELSE \E e \in EndResults :
                /\ wire' = WriteFrame(c.prim, e)
                /\ retval' = IF e # 0 THEN ksfTkErrFail ELSE ksfTkErrOk
    /\ pc' = "done"
    /\ UNCHANGED <<extVars, host, _byteOrder, cfgVars, numBytes, nOrig, bFirstInter, nCopied,
                   readBytes, out>>

(***************************************************************************)
(* sfTkArdI2C::readRegisterRegionAnyAddress                                *)
(***************************************************************************)
\* where the primitive returns to: its caller outside the binding, or the
\* binding's function via that called it
ReturnTo(via) == IF via = "direct" THEN "done" ELSE "inner"

\* entry: the two guards, readBytes = 0 and the locals
\* devNull: devReg is a null pointer; devReg: the regLength bytes that
\* write(devReg, regLength) fetches; data: "null" or "buf"
readRegisterRegionAnyAddress(via, devNull, devReg, data, n) ==
    /\ pc = "idle"
    /\ call' = [op |-> "readRegisterRegionAnyAddress", via |-> via,
                devNull |-> devNull, devReg |-> devReg,
                regLength |-> Len(devReg), data |-> data, numBytes |-> n]
    /\ wire' = <<>>
    /\ nCopied' = 0
    /\ IF _i2cPort = "null"
         THEN /\ retval' = ksfTkErrBusNotInit
              /\ pc' = ReturnTo(via)
              /\ UNCHANGED <<numBytes, nOrig, bFirstInter, readBytes>>
         ELSE IF data = "null"
           THEN /\ retval' = ksfTkErrBusNullBuffer
                /\ pc' = ReturnTo(via)
                /\ UNCHANGED <<numBytes, nOrig, bFirstInter, readBytes>>
           ELSE /\ readBytes' = 0
                /\ numBytes' = n
                /\ nOrig' = ToU16(n)
                /\ bFirstInter' = TRUE
                /\ pc' = "while"
                /\ UNCHANGED retval
    /\ UNCHANGED <<extVars, host, _byteOrder, cfgVars, busVars>>

\* the register addresses the primitive is called with: one byte; none, by a
\* null pointer or by regLength 0; and a null pointer with regLength 1, for
\* which the byte is whatever lies at address 0
NoAddressLen == 2
ReadAddresses ==
    {[null |-> FALSE, bytes |-> <<16>>], [null |-> TRUE, bytes |-> <<>>],
     [null |-> FALSE, bytes |-> <<>>], [null |-> TRUE, bytes |-> <<0>>],
     [null |-> TRUE, bytes |-> <<255>>]}

\* the address phase with the result of endTransmission ignored
AddressPhase_ignoreResult ==
    /\ pc = "while"
    /\ numBytes > 0
    /\ bFirstInter
    /\ \E e \in EndResults :
         wire' = wire \o <<EvBegin(_address), EvWrite(call.devReg), EvEnd(_stop, e)>>
    /\ bFirstInter' = FALSE
    /\ UNCHANGED <<extVars, host, _byteOrder, cfgVars, pc, call, numBytes, nOrig, nCopied,
                   readBytes, retval, busVars>>

\* if (bFirstInter) { beginTransmission; write(devReg, regLength); endTransmission(stop()) }
AddressPhase ==
    /\ pc = "while"
    /\ numBytes > 0
    /\ bFirstInter
    /\ \E e \in EndResults :
         /\ wire' = wire \o <<EvBegin(_address), EvWrite(call.devReg), EvEnd(_stop, e)>>
         /\ IF e # 0
              THEN /\ retval' = ksfTkErrFail
                   /\ pc' = ReturnTo(call.via)
                   /\ UNCHANGED bFirstInter
              ELSE /\ bFirstInter' = FALSE
                   /\ UNCHANGED <<retval, pc>>
    /\ UNCHANGED <<extVars, host, _byteOrder, cfgVars, call, numBytes, nOrig, nCopied,
                   readBytes, busVars>>

\* write(devReg, regLength) with devReg == nullptr and regLength > 0 fetches
\* through the null pointer: the bytes found at address 0 are sent (call.devReg,
\* AddressPhase), or the program stops there
AddressFault ==
    /\ pc = "while"
    /\ numBytes > 0
    /\ bFirstInter
    /\ call.devNull
    /\ call.regLength > 0
    /\ wire' = wire \o <<EvBegin(_address)>>
    /\ pc' = "fault"
    /\ UNCHANGED <<extVars, host, _byteOrder, cfgVars, call, numBytes, nOrig,
                   bFirstInter, nCopied, readBytes, retval, busVars>>

\* uint8_t nChunk = numBytes > _bufferChunkSize ? _bufferChunkSize : numBytes
nChunkOf(left) == ToU8(IF left > _bufferChunkSize THEN _bufferChunkSize ELSE left)

\* sendStop always true
RequestStop_always(nChunk, left) == TRUE

\* sendStop never forced on the last chunk
RequestStop_never(nChunk, left) == _stop

\* the sendStop argument: (int)(nChunk == numBytes ? true : stop())
RequestStop(nChunk, left) == IF nChunk = left THEN TRUE ELSE _stop

\* the same with the count decremented by the bytes asked for
RequestChunk_byRequested ==
    /\ pc = "while"
    /\ numBytes > 0
    /\ ~bFirstInter
    /\ LET nChunk == nChunkOf(numBytes)
       IN \E nReturned \in Returned(nChunk, call.numBytes) :
            /\ wire' = Append(wire, EvRequest(_address, nChunk,
                                    RequestStop(nChunk, numBytes), nReturned, numBytes))
            /\ IF nReturned = 0
                 THEN /\ retval' = ksfTkErrBusUnderRead
                      /\ pc' = ReturnTo(call.via)
                      /\ UNCHANGED <<nCopied, numBytes>>
                 ELSE /\ nCopied' = nCopied + nReturned
                      /\ numBytes' = numBytes - nChunk
                      /\ UNCHANGED <<retval, pc>>
    /\ UNCHANGED <<extVars, host, _byteOrder, cfgVars, call, nOrig, bFirstInter, readBytes, busVars>>

\* requestFrom, the nReturned == 0 exit, the copy loop and the decrement
RequestChunk ==
    /\ pc = "while"
    /\ numBytes > 0
    /\ ~bFirstInter
    /\ LET nChunk == nChunkOf(numBytes)
       IN \E nReturned \in Returned(nChunk, call.numBytes) :
            /\ wire' = Append(wire, EvRequest(_address, nChunk,
                                    RequestStop(nChunk, numBytes), nReturned, numBytes))
            /\ IF nReturned = 0
                 THEN /\ retval' = ksfTkErrBusUnderRead
                      /\ pc' = ReturnTo(call.via)
                      /\ UNCHANGED <<nCopied, numBytes>>
                 ELSE /\ nCopied' = nCopied + nReturned
                      /\ numBytes' = numBytes - nReturned
                      /\ UNCHANGED <<retval, pc>>
    /\ UNCHANGED <<extVars, host, _byteOrder, cfgVars, call, nOrig, bFirstInter, readBytes, busVars>>

\* after the loop: readBytes = nOrig - numBytes; return readBytes == nOrig ? Ok : UnderRead
ReadFinish ==
    /\ pc = "while"
    /\ numBytes = 0
    /\ readBytes' = nOrig - numBytes
    /\ retval' = IF readBytes' = nOrig THEN ksfTkErrOk ELSE ksfTkErrBusUnderRead
    /\ pc' = ReturnTo(call.via)
    /\ UNCHANGED <<extVars, host, _byteOrder, cfgVars, call, numBytes, nOrig, bFirstInter,
                   nCopied, wire, busVars>>

\* the caller has taken the result: the frame is gone
Return ==
    /\ pc = "done"
    /\ pc' = "idle"
    /\ call' = NoCall
    /\ numBytes' = 0
    /\ nOrig' = 0
    /\ bFirstInter' = FALSE
    /\ nCopied' = 0
    /\ readBytes' = 0
    /\ retval' = ksfTkErrOk
    /\ wire' = <<>>
    /\ acc' = NoBus
    /\ prim' = NoBus
    /\ out' = NoBus
    /\ UNCHANGED <<extVars, host, _byteOrder, cfgVars>>

Next ==
    \/ \E order \in ByteOrders : setByteOrder(order)
    \/ \E a \in Addrs : setAddress(a)
    \/ \E s \in BOOLEAN : setStop(s)
    \/ \E c \in ChunkSizes \cup {0} : setBufferChunkSize(c)
    \/ \E p \in Ports, a \in Addrs, b \in BOOLEAN : init(p, a, b)
    \/ \E a \in Addrs : init_addr(a)
    \/ init_void
    \/ \E c \in BusWriteCalls : writeRegisterRegionAddress(c)
    \/ \E a \in ReadAddresses, d \in {"null", "buf"} :
         \E n \in IF a.null \/ a.bytes = <<>> THEN 0 .. NoAddressLen
                               ELSE ReadLengths(_bufferChunkSize) :
           readRegisterRegionAnyAddress("direct", a.null, a.bytes, d, n)
    \/ AddressPhase
    \/ AddressFault
    \/ RequestChunk
    \/ ReadFinish
    \/ Return

Spec == Init /\ [][Next]_vars

\* the read runs to its return: a loop iteration that can be taken is taken
SpecFair ==
    /\ Spec
    /\ WF_vars(AddressPhase \/ AddressFault)
    /\ WF_vars(RequestChunk)
    /\ WF_vars(ReadFinish)

(***************************************************************************)
(* SpecCtor: the bus as any of the three constructors of sfTkArdI2C leaves *)
(* it.  sfTkArdI2C(uint8_t addr) initialises _address alone: _stop,        *)
(* _i2cPort and _bufferChunkSize hold whatever the storage held.  The copy *)
(* constructor takes _i2cPort from rhs and default-constructs sfTkII2C;    *)
(* _bufferChunkSize is again left as found.                                *)
(***************************************************************************)
\* values an uninitialised size_t may hold
IndeterminateSizes == {0, 1, kDefaultBufferChunk}
\* values an uninitialised TwoWire* may hold: null, or an address that is no port
IndeterminatePorts == {"null", "wild"}

\* sfTkArdI2C(uint8_t addr) : sfTkII2C(addr)
InitI2C_addr ==
    /\ _address \in Addrs
    /\ _stop \in BOOLEAN
    /\ _i2cPort \in IndeterminatePorts
    /\ _bufferChunkSize \in IndeterminateSizes

\* sfTkArdI2C(sfTkArdI2C const &rhs) : sfTkII2C(), _i2cPort{rhs._i2cPort}
InitI2C_copy ==
    /\ _address = kNoAddress
    /\ _stop = TRUE
    /\ _i2cPort \in {"null"} \cup Ports
    /\ _bufferChunkSize \in IndeterminateSizes

InitCtor == InitCommon /\ (InitI2C \/ InitI2C_addr \/ InitI2C_copy) /\ InitUARTBus

\* a read or write entered with _i2cPort an address that is no port: the
\* guard !_i2cPort passes and the first call through the pointer stops the program
WildPortCall ==
    /\ pc = "idle"
    /\ _i2cPort = "wild"
    /\ pc' = "fault"
    /\ \E op \in {"writeRegisterRegionAddress", "readRegisterRegionAnyAddress"} :
         call' = [op |-> op]
    /\ UNCHANGED <<extVars, host, _byteOrder, cfgVars, numBytes, nOrig, bFirstInter,
                   nCopied, readBytes, retval, wire, busVars>>

NextCtor ==
    \/ \E c \in {0, 1, 2, kDefaultBufferChunk} : setBufferChunkSize(c)
    \/ \E p \in Ports, a \in Addrs, b \in BOOLEAN : init(p, a, b)
    \/ \E c \in BusWriteCalls : _i2cPort # "wild" /\ writeRegisterRegionAddress(c)
    \/ \E d \in Pointers, n \in 0 .. MaxShortLen :
         /\ _i2cPort # "wild"
         /\ readRegisterRegionAnyAddress("direct", FALSE, <<16>>, d, n)
    \/ WildPortCall
    \/ AddressPhase
    \/ RequestChunk
    \/ ReadFinish
    \/ Return

SpecCtor == InitCtor /\ [][NextCtor]_vars

(***************************************************************************)
(* sfTkIBus over an arbitrary implementation of the primitives             *)
(***************************************************************************)
\* a write accessor call c; the primitive returns r, which the accessor returns
BusWrite(c, r) ==
    /\ pc = "idle"
    /\ pc' = "done"
    /\ acc' = c.acc
    /\ prim' = c.prim
    /\ out' = Result(r, c.acc.value, 0)
    /\ UNCHANGED <<extVars, host, _byteOrder, cfgVars, call, numBytes, nOrig, bFirstInter,
                   nCopied, readBytes, retval, wire>>

\* a read accessor call c, the primitive's answer included
BusRead(c) ==
    /\ pc = "idle"
    /\ pc' = "done"
    /\ acc' = c.acc
    /\ prim' = c.prim
    /\ out' = c.out
    /\ UNCHANGED <<extVars, host, _byteOrder, cfgVars, call, numBytes, nOrig, bFirstInter,
                   nCopied, readBytes, retval, wire>>

NextBus ==
    \/ \E order \in ByteOrders : setByteOrder(order)
    \/ \E c \in BusWriteCalls, r \in PrimRets : BusWrite(c, r)
    \/ \E c \in BusReadCalls : BusRead(c)
    \/ Return

SpecBus == Init /\ [][NextBus]_vars

(***************************************************************************)
(* SpecLoop: the word-array accessors of sfTkIBus over a transport that    *)
(* stores the bytes it is handed under the address bytes it is handed and  *)
(* gives them back unchanged                                               *)
(***************************************************************************)
LoopArrays == WordArrays \cup {<<1, 2, 515>>}

\* writeRegister(uint16_t devReg, const uint16_t *data, size_t length); the
\* transport stores the data bytes and answers ksfTkErrOk
LoopWrite(devReg, data) ==
    /\ pc = "idle"
    /\ pc' = "done"
    /\ acc' = ACall("writeRegister_u16_words", devReg, 0, data)
    /\ prim' = writeRegister_u16_words(devReg, data)
    /\ out' = Result(ksfTkErrOk, data, 0)
    /\ mock' = [reg |-> prim'.devReg, data |-> prim'.data,
                from |-> [op |-> "write", reg |-> devReg, value |-> data,
                          order |-> _byteOrder]]
    /\ UNCHANGED <<spiVars, uartVars, host, _byteOrder, cfgVars,
                   call, numBytes, nOrig, bFirstInter, nCopied, readBytes, retval, wire>>

\* what the transport answers to a read of n bytes at the address bytes a
LoopAnswer(a, n) ==
    [ret |-> ksfTkErrOk,
     data |-> IF a = mock.reg /\ n <= Len(mock.data)
                THEN SubSeq(mock.data, 1, n)
                ELSE [i \in 1 .. n |-> 0]]

\* readRegister(uint16_t reg, uint16_t *data, size_t length, size_t &read16)
\* into an array of length zeroed words
LoopRead(reg, length) ==
    /\ pc = "idle"
    /\ pc' = "done"
    /\ LET data == [i \in 1 .. length |-> 0]
           a == readRegister_u16_buf(reg, MemWords(data), LoopAnswer(<<>>, 0)).prim.devReg
           r == readRegister_u16_words(reg, data, LoopAnswer(a, 2 * length))
       IN /\ acc' = ACall("readRegister_u16_words", reg, 0, data)
          /\ prim' = r.prim
          /\ out' = r.out
    /\ UNCHANGED <<extVars, host, _byteOrder, cfgVars, call, numBytes, nOrig,
                   bFirstInter, nCopied, readBytes, retval, wire>>

NextLoop ==
    \/ \E order \in ByteOrders : setByteOrder(order)
    \/ \E r \in Regs16, d \in LoopArrays : LoopWrite(r, d)
    \/ \E r \in Regs16, n \in 1 .. 3 : LoopRead(r, n)
    \/ Return

SpecLoop == Init /\ [][NextLoop]_vars

(***************************************************************************)
(* SpecSwap: sftk_byte_swap applied to a value, and applied again to what  *)
(* it returned                                                             *)
(***************************************************************************)
SwapBytes == {0, 1, 127, 128, 255}
SwapWords == {0, 1, 255, 256, 4660, 32767, 32768, 43981, 65280, 65535}
               \cup {k * 263 + 7 : k \in 0 .. 40}
SwapHalves == {0, 1, 255, 4660, 32768, 65535}
SwapDWords == {<<h, l>> : h \in SwapHalves, l \in SwapHalves}

\* sftk_byte_swap at the width / signedness t
SwapAs(t, v) ==
    CASE t = "u8" -> sftk_byte_swap8(v)
      [] t = "u16" -> sftk_byte_swap16(v)
      [] t = "u32" -> sftk_byte_swap32(v)
      [] t = "i16" -> sftk_byte_swap_i16(v)
      [] t = "i32" -> sftk_byte_swap_i32(v)

\* the first application, to v of type t
ByteSwap(t, v) ==
    /\ pc = "idle"
    /\ pc' = "done"
    /\ acc' = [op |-> "sftk_byte_swap", reg |-> 0, width |-> t, value |-> v]
    /\ prim' = NoBus
    /\ out' = Result(ksfTkErrOk, SwapAs(t, v), 1)
    /\ UNCHANGED <<extVars, host, _byteOrder, cfgVars, call, numBytes, nOrig,
                   bFirstInter, nCopied, readBytes, retval, wire>>

\* the second application, to the result of the first
ByteSwapAgain ==
    /\ pc = "done"
    /\ acc.op = "sftk_byte_swap"
    /\ out.count = 1
    /\ out' = Result(ksfTkErrOk, SwapAs(acc.width, out.value), 2)
    /\ UNCHANGED <<extVars, host, _byteOrder, cfgVars, frameVars, acc, prim>>

NextSwap ==
    \/ \E v \in SwapBytes : ByteSwap("u8", v)
    \/ \E v \in SwapWords : ByteSwap("u16", v)
    \/ \E v \in SwapDWords : ByteSwap("u32", v)
    \/ \E v \in SwapWords : ByteSwap("i16", AsI16(v))
    \/ \E v \in SwapDWords : ByteSwap("i32", AsI32(v))
    \/ ByteSwapAgain
    \/ Return

SpecSwap == Init /\ [][NextSwap]_vars

(***************************************************************************)
(* SpecArd: the register functions sfTkArdI2C.cpp defines on top of the    *)
(* two primitives.  The bytes a read stores are not part of the state,     *)
(* only their number is.                                                   *)
(***************************************************************************)
I2cCallOf(op, reg, data, n) ==
    [op |-> op, via |-> op, devReg |-> reg, data |-> data, numBytes |-> n]
I2cRet(w, r) == [w |-> w, ret |-> r]

\* a function of the binding that makes its calls on the port in one go
\* returns r after the calls w
I2cDone(c, w, r) ==
    /\ pc = "idle"
    /\ pc' = "done"
    /\ call' = c
    /\ wire' = w
    /\ retval' = r
    /\ UNCHANGED <<extVars, host, _byteOrder, cfgVars, numBytes, nOrig, bFirstInter,
                   nCopied, readBytes, busVars>>

\* writeRegisterRegionAddress(devReg, regLength, data, length) for the
\* primitive arguments p, endTransmission answering e
writeRegisterRegionAddress_do(p, e) ==
    IF _i2cPort = "null" THEN I2cRet(<<>>, ksfTkErrBusNotInit)
    ELSE I2cRet(WriteFrame(p, e), IF e # 0 THEN ksfTkErrFail ELSE ksfTkErrOk)

\* writeRegion: writeRegisterRegionAddress(nullptr, 0, data, length) == 0 ?
\* ksfTkErrOk : ksfTkErrFail
I2C_writeRegion_do(data, e) ==
    LET r == writeRegisterRegionAddress_do(WPrim(TRUE, <<>>, data), e)
    IN I2cRet(r.w, IF r.ret = 0 THEN ksfTkErrOk ELSE ksfTkErrFail)

\* writeRegisterRegion(uint8_t devReg, const uint8_t *data, size_t length)
I2C_writeRegisterRegion_do(devReg, data, e) ==
    writeRegisterRegionAddress_do(WPrim(FALSE, <<devReg>>, data), e)

\* the result of endTransmission() == 0 ? ksfTkErrOk : ksfTkErrFail
EndCode(e) == IF e = 0 THEN ksfTkErrOk ELSE ksfTkErrFail

I2C_ping ==
    \E e \in EndResults :
      LET r == IF _i2cPort = "null" THEN I2cRet(<<>>, ksfTkErrBusNotInit)
               ELSE I2cRet(<<EvBegin(_address), EvEnd(TRUE, e)>>, EndCode(e))
      IN I2cDone(I2cCallOf("ping", 0, <<>>, 0), r.w, r.ret)

I2C_writeByte(dataToWrite) ==
    \E e \in EndResults :
      LET r == IF _i2cPort = "null" THEN I2cRet(<<>>, ksfTkErrBusNotInit)
               ELSE I2cRet(<<EvBegin(_address), EvWrite(<<dataToWrite>>), EvEnd(TRUE, e)>>,
                           EndCode(e))
      IN I2cDone(I2cCallOf("writeByte", 0, <<dataToWrite>>, 0), r.w, r.ret)

I2C_writeWord(dataToWrite) ==
    \E e \in EndResults :
      LET r == IF _i2cPort = "null" THEN I2cRet(<<>>, ksfTkErrBusNotInit)
               ELSE I2C_writeRegion_do(Mem16(dataToWrite), e)
      IN I2cDone(I2cCallOf("writeWord", 0, <<dataToWrite>>, 0), r.w, r.ret)

I2C_writeRegion(data) ==
    \E e \in EndResults :
      LET r == I2C_writeRegion_do(data, e)
      IN I2cDone(I2cCallOf("writeRegion", 0, data, 0), r.w, r.ret)

I2C_writeRegisterByte(devReg, dataToWrite) ==
    \E e \in EndResults :
      LET r == IF _i2cPort = "null" THEN I2cRet(<<>>, ksfTkErrBusNotInit)
               ELSE I2cRet(<<EvBegin(_address), EvWrite(<<devReg>>),
                             EvWrite(<<dataToWrite>>), EvEnd(TRUE, e)>>, EndCode(e))
      IN I2cDone(I2cCallOf("writeRegisterByte", devReg, <<dataToWrite>>, 0), r.w, r.ret)

I2C_writeRegisterWord(devReg, dataToWrite) ==
    \E e \in EndResults :
      LET r == IF _i2cPort = "null" THEN I2cRet(<<>>, ksfTkErrBusNotInit)
               ELSE I2C_writeRegisterRegion_do(devReg, Mem16(dataToWrite), e)
      IN I2cDone(I2cCallOf("writeRegisterWord", devReg, <<dataToWrite>>, 0), r.w, r.ret)

I2C_writeRegisterRegion(devReg, data) ==
    \E e \in EndResults :
      LET r == I2C_writeRegisterRegion_do(devReg, data, e)
      IN I2cDone(I2cCallOf("writeRegisterRegion", devReg, data, 0), r.w, r.ret)

\* writeRegister16Region(uint16_t devReg, const uint8_t *data, size_t length)
I2C_writeRegister16Region(devReg, data) ==
    \E e \in EndResults :
      LET reg == IF NeedSwap THEN sftk_byte_swap16(devReg) ELSE devReg
          r == writeRegisterRegionAddress_do(WPrim(FALSE, Mem16(reg), data), e)
      IN I2cDone(I2cCallOf("writeRegister16Region", devReg, data, 0), r.w, r.ret)

\* writeRegister16Region16(uint16_t devReg, const uint16_t *data, size_t length)
I2C_writeRegister16Region16(devReg, data) ==
    \E e \in EndResults :
      LET data16 == [i \in 1 .. Len(data) |-> sftk_byte_swap16(data[i])]
          r == IF ~NeedSwap
                 THEN writeRegisterRegionAddress_do(
                          WPrim(FALSE, Mem16(devReg), MemWords(data)), e)
                 ELSE writeRegisterRegionAddress_do(
                          WPrim(FALSE, Mem16(sftk_byte_swap16(devReg)), MemWords(data16)), e)
      IN I2cDone(I2cCallOf("writeRegister16Region16", devReg, data, 0), r.w, r.ret)

\* readRegisterByte: the result of endTransmission(stop()) is not looked at;
\* requestFrom(address(), 1) makes k bytes available, each of them is read
I2C_readRegisterByte(devReg) ==
    \E e \in EndResults, k \in 0 .. 1 :
      LET r == IF _i2cPort = "null" THEN I2cRet(<<>>, ksfTkErrBusNotInit)
               ELSE I2cRet(<<EvBegin(_address), EvWrite(<<devReg>>), EvEnd(_stop, e),
                             EvRequest(_address, 1, TRUE, k, 1)>>,
                           IF k = 1 THEN ksfTkErrOk ELSE ksfTkErrFail)
      IN I2cDone(I2cCallOf("readRegisterByte", devReg, "buf", 1), r.w, r.ret)

\* readRegisterWord(uint8_t devReg, uint16_t &dataToRead)
I2C_readRegisterWord(devReg) ==
    IF _i2cPort = "null"
      THEN I2cDone(I2cCallOf("readRegisterWord", devReg, "buf", 2), <<>>,
                   ksfTkErrBusNotInit)
      ELSE readRegisterRegionAnyAddress("readRegisterWord", FALSE, <<devReg>>, "buf", 2)

\* readRegisterRegion(uint8_t devReg, uint8_t *data, size_t numBytes, size_t &)
I2C_readRegisterRegion(devReg, data, n) ==
    readRegisterRegionAnyAddress("readRegisterRegion", FALSE, <<devReg>>, data, n)

\* readRegister16Region(uint16_t devReg, uint8_t *data, size_t numBytes, size_t &)
I2C_readRegister16Region(devReg, data, n) ==
    LET reg == IF NeedSwap THEN sftk_byte_swap16(devReg) ELSE devReg
    IN readRegisterRegionAnyAddress("readRegister16Region", FALSE, Mem16(reg), data, n)

\* readRegister16Region16(uint16_t devReg, uint16_t *data, size_t numBytes,
\* size_t &readWords): numBytes counts words
I2C_readRegister16Region16(devReg, data, n) ==
    LET reg == IF NeedSwap THEN sftk_byte_swap16(devReg) ELSE devReg
    IN readRegisterRegionAnyAddress("readRegister16Region16", FALSE, Mem16(reg), data,
                                    n * 2)

\* the primitive has returned to the function that called it, which returns
ReadEpilogue ==
    /\ pc = "inner"
    /\ pc' = "done"
    /\ retval' = IF call.via = "readRegisterWord"
                   THEN (IF retval = ksfTkErrOk /\ readBytes = 2 THEN ksfTkErrOk ELSE retval)
                   ELSE retval
    /\ readBytes' = IF call.via = "readRegister16Region16" THEN readBytes \div 2
                     ELSE readBytes
    /\ UNCHANGED <<extVars, host, _byteOrder, cfgVars, call, numBytes, nOrig,
                   bFirstInter, nCopied, wire, busVars>>

ArdReadLengths == 0 .. 2

NextArd ==
    \/ \E order \in ByteOrders : setByteOrder(order)
    \/ \E a \in Addrs : setAddress(a)
    \/ \E t \in BOOLEAN : setStop(t)
    \/ \E p \in Ports, a \in Addrs, b \in BOOLEAN : init(p, a, b)
    \/ \E a \in Addrs : init_addr(a)
    \/ init_void
    \/ I2C_ping
    \/ \E d \in Bytes : I2C_writeByte(d)
    \/ \E d \in Words : I2C_writeWord(d)
    \/ \E d \in Buffers : I2C_writeRegion(d)
    \/ \E r \in Regs8, d \in Bytes : I2C_writeRegisterByte(r, d)
    \/ \E r \in Regs8, d \in Words : I2C_writeRegisterWord(r, d)
    \/ \E r \in Regs8, d \in Buffers : I2C_writeRegisterRegion(r, d)
    \/ \E r \in Regs16, d \in Buffers : I2C_writeRegister16Region(r, d)
    \/ \E r \in Regs16, d \in WordArrays : I2C_writeRegister16Region16(r, d)
    \/ \E r \in Regs8 : I2C_readRegisterByte(r)
    \/ \E r \in Regs8 : I2C_readRegisterWord(r)
    \/ \E r \in Regs8, d \in Pointers, n \in ArdReadLengths : I2C_readRegisterRegion(r, d, n)
    \/ \E r \in Regs16, d \in Pointers, n \in ArdReadLengths :
         I2C_readRegister16Region(r, d, n)
    \/ \E r \in Regs16, d \in Pointers, n \in 0 .. 1 : I2C_readRegister16Region16(r, d, n)
    \/ AddressPhase
    \/ RequestChunk
    \/ ReadFinish
    \/ ReadEpilogue
    \/ Return

SpecArd == Init /\ [][NextArd]_vars

(***************************************************************************)
(* SpecInit: the init overloads of sfTkArdI2C as calls that return a       *)
(* value.  The call record keeps the address passed in and whether a port  *)
(* was bound when the call was made.                                       *)
(***************************************************************************)
InitCallOf(op, addr) ==
    [op |-> op, via |-> op, devReg |-> addr, data |-> <<>>, numBytes |-> 0,
     bound |-> _i2cPort # "null"]

\* the caller of an init overload has its return value r
InitDone(c, r) ==
    /\ pc = "idle"
    /\ pc' = "done"
    /\ call' = c
    /\ wire' = <<>>
    /\ retval' = r
    /\ UNCHANGED <<extVars, host, _byteOrder, _stop, _bufferChunkSize, numBytes, nOrig,
                   bFirstInter, nCopied, readBytes, busVars>>

\* sfTkError_t init(uint8_t addr)
I2C_init_addr(addr) ==
    /\ InitDone(InitCallOf("init(addr)", addr), ksfTkErrOk)
    /\ IF _i2cPort = "null"
         THEN /\ _i2cPort' = "Wire"
              /\ _address' = addr
         ELSE UNCHANGED <<_i2cPort, _address>>
    /\ UNCHANGED begun

\* sfTkError_t init(TwoWire &wirePort, uint8_t addr, bool bInit)
I2C_init(wirePort, addr, bInit) ==
    /\ InitDone(InitCallOf("init(wirePort, addr, bInit)", addr), ksfTkErrOk)
    /\ IF _i2cPort = "null"
         THEN /\ _i2cPort' = wirePort
              /\ begun' = IF bInit THEN begun \cup {wirePort} ELSE begun
         ELSE UNCHANGED <<_i2cPort, begun>>
    /\ _address' = addr

\* sfTkError_t init(void): init(address())
I2C_init_void ==
    /\ InitDone(InitCallOf("init()", _address), ksfTkErrOk)
    /\ _i2cPort' = IF _i2cPort = "null" THEN "Wire" ELSE _i2cPort
    /\ UNCHANGED <<_address, begun>>

NextInit ==
    \/ \E a \in Addrs : setAddress(a)
    \/ \E s \in BOOLEAN : setStop(s)
    \/ \E p \in Ports, a \in Addrs, b \in BOOLEAN : I2C_init(p, a, b)
    \/ \E a \in Addrs : I2C_init_addr(a)
    \/ I2C_init_void
    \/ Return

SpecInit == Init /\ [][NextInit]_vars

(***************************************************************************)
(* sfTkArdSPI: the Arduino SPI binding.  The calls on the SPIClass port    *)
(* and on the chip-select pin are recorded in wire.                        *)
(***************************************************************************)
kSPIReadBit == 128

SpiBeginTx ==
    [op |-> "beginTransaction", addr |-> 0, bytes |-> <<>>, n |-> 0,
     stop |-> FALSE, ret |-> 0, rem |-> 0]
SpiEndTx ==
    [op |-> "endTransaction", addr |-> 0, bytes |-> <<>>, n |-> 0,
     stop |-> FALSE, ret |-> 0, rem |-> 0]
\* digitalWrite(pin, level): level 0 is LOW, 1 is HIGH
SpiCS(pin, level) ==
    [op |-> "digitalWrite", addr |-> pin, bytes |-> <<>>, n |-> level,
     stop |-> FALSE, ret |-> 0, rem |-> 0]
\* transfer(b) returning r
SpiTransfer(b, r) ==
    [op |-> "transfer", addr |-> 0, bytes |-> <<b>>, n |-> 1,
     stop |-> FALSE, ret |-> r, rem |-> 0]
\* transfer16(w) returning r
SpiTransfer16(w, r) ==
    [op |-> "transfer16", addr |-> 0, bytes |-> <<w>>, n |-> 2,
     stop |-> FALSE, ret |-> r, rem |-> 0]

\* the frame with the transaction ended before the device is deselected
SpiFrame_endFirst(t) ==
    <<SpiBeginTx, SpiCS(_cs, 0)>> \o t \o <<SpiEndTx, SpiCS(_cs, 1)>>

\* beginTransaction, chip select LOW, the transfers t, chip select HIGH,
\* endTransaction
SpiFrame(t) ==
    <<SpiBeginTx, SpiCS(_cs, 0)>> \o t \o <<SpiCS(_cs, 1), SpiEndTx>>

\* for (i < length) transfer(*data++)
SpiSend(data) == [i \in 1 .. Len(data) |-> SpiTransfer(data[i], 0)]
\* for (i < length) transfer16(*data++)
SpiSend16(data) == [i \in 1 .. Len(data) |-> SpiTransfer16(data[i], 0)]
\* for (i < numBytes) *data++ = transfer(0x00), the port answering got
SpiReceive(got) == [i \in 1 .. Len(got) |-> SpiTransfer(0, got[i])]
SpiReceive16(got) == [i \in 1 .. Len(got) |-> SpiTransfer16(0, got[i])]

\* devReg | kSPIReadBit
WithReadBit(devReg) ==
    IF (devReg \div kSPIReadBit) % 2 = 1 THEN devReg ELSE devReg + kSPIReadBit

SpiPorts == {"SPI", "SPI1"}
Pins == {kNoCSPin, 10}
Settings == {"SPISettings(3000000, MSBFIRST, SPI_MODE3)", "busSPISettings"}

\* sfTkISPI::setCS
setCS(devCS) ==
    /\ pc = "idle"
    /\ _cs' = devCS
    /\ UNCHANGED <<mock, _spiPort, _sfeSPISettings, uartVars, host, _byteOrder,
                   cfgVars, frameVars, busVars>>

\* init(SPIClass &spiPort, SPISettings &busSPISettings, uint8_t csPin, bool bInit)
SPI_init(spiPort, busSPISettings, csPin, bInit) ==
    /\ pc = "idle"
    /\ IF _spiPort = "null"
         THEN /\ _spiPort' = spiPort
              /\ begun' = IF bInit THEN begun \cup {spiPort} ELSE begun
         ELSE UNCHANGED <<_spiPort, begun>>
    /\ _cs' = csPin
    /\ _sfeSPISettings' = busSPISettings
    /\ UNCHANGED <<mock, uartVars, host, _byteOrder, _i2cPort, _address, _stop,
                   _bufferChunkSize, frameVars, busVars>>

\* init(uint8_t csPin, bool bInit)
SPI_init_cs(csPin, bInit) ==
    SPI_init("SPI", "SPISettings(3000000, MSBFIRST, SPI_MODE3)", csPin, bInit)

\* init(bool bInit)
SPI_init_bool(bInit) == SPI_init_cs(_cs, bInit)

\* a call that leaves the select pin unset behind it
SpiDone_deselect(c, w, r, rb, k, v) ==
    /\ pc = "idle"
    /\ pc' = "done"
    /\ call' = c
    /\ wire' = w
    /\ retval' = r
    /\ readBytes' = rb
    /\ nCopied' = k
    /\ out' = v
    /\ _cs' = kNoCSPin
    /\ UNCHANGED <<mock, _spiPort, _sfeSPISettings, uartVars, host, _byteOrder, cfgVars,
                   numBytes, nOrig, bFirstInter, acc, prim>>

\* a call c of the binding returns: the calls w it made, its return value r,
\* the caller's readBytes rb, the bytes stored through data k, the value v
SpiDone(c, w, r, rb, k, v) ==
    /\ pc = "idle"
    /\ pc' = "done"
    /\ call' = c
    /\ wire' = w
    /\ retval' = r
    /\ readBytes' = rb
    /\ nCopied' = k
    /\ out' = v
    /\ UNCHANGED <<extVars, host, _byteOrder, cfgVars, numBytes, nOrig, bFirstInter,
                   acc, prim>>

SpiCallOf(op, reg, data, n) == [op |-> op, devReg |-> reg, data |-> data, numBytes |-> n]
SpiRet(w, r) == [w |-> w, ret |-> r]

\* writeRegion(const uint8_t *dataToWrite, size_t length): calls and result
SPI_writeRegion_do(data) ==
    IF _spiPort = "null" THEN SpiRet(<<>>, ksfTkErrBusNotInit)
    ELSE SpiRet(SpiFrame(SpiSend(data)), ksfTkErrOk)

\* writeRegisterRegion(uint8_t devReg, const uint8_t *data, size_t length)
SPI_writeRegisterRegion_do(devReg, data) ==
    IF _spiPort = "null" THEN SpiRet(<<>>, ksfTkErrBusNotInit)
    ELSE SpiRet(SpiFrame(<<SpiTransfer(devReg, 0)>> \o SpiSend(data)), ksfTkErrOk)

\* the bool (x > 0) returned as a sfTkError_t
GreaterThanZero(x) == IF x > 0 THEN 1 ELSE 0

SPI_writeByte(data) ==
    LET r == IF _spiPort = "null" THEN SpiRet(<<>>, ksfTkErrBusNotInit)
             ELSE SpiRet(SpiFrame(<<SpiTransfer(data, 0)>>), ksfTkErrOk)
    IN SpiDone(SpiCallOf("writeByte", 0, <<data>>, 0), r.w, r.ret, 0, 0, NoBus)

\* writeRegion((uint8_t *)&dataToWrite, sizeof(uint8_t)) > 0
SPI_writeWord(data) ==
    LET r == SPI_writeRegion_do(SubSeq(Mem16(data), 1, 1))
    IN SpiDone(SpiCallOf("writeWord", 0, <<data>>, 0), r.w, GreaterThanZero(r.ret),
               0, 0, NoBus)

SPI_writeRegion(data) ==
    LET r == SPI_writeRegion_do(data)
    IN SpiDone(SpiCallOf("writeRegion", 0, data, 0), r.w, r.ret, 0, 0, NoBus)

SPI_writeRegisterByte(devReg, data) ==
    LET r == IF _spiPort = "null" THEN SpiRet(<<>>, ksfTkErrBusNotInit)
             ELSE SpiRet(SpiFrame(<<SpiTransfer(devReg, 0), SpiTransfer(data, 0)>>),
                         ksfTkErrOk)
    IN SpiDone(SpiCallOf("writeRegisterByte", devReg, <<data>>, 0), r.w, r.ret,
               0, 0, NoBus)

\* writeRegisterRegion(devReg, (uint8_t *)&dataToWrite, sizeof(uint8_t)) > 0
SPI_writeRegisterWord(devReg, data) ==
    LET r == SPI_writeRegisterRegion_do(devReg, SubSeq(Mem16(data), 1, 1))
    IN SpiDone(SpiCallOf("writeRegisterWord", devReg, <<data>>, 0), r.w,
               GreaterThanZero(r.ret), 0, 0, NoBus)

SPI_writeRegisterRegion(devReg, data) ==
    LET r == SPI_writeRegisterRegion_do(devReg, data)
    IN SpiDone(SpiCallOf("writeRegisterRegion", devReg, data, 0), r.w, r.ret,
               0, 0, NoBus)

\* writeRegister16Region(uint16_t devReg, const uint8_t *data, size_t length)
SPI_writeRegister16Region(devReg, data) ==
    LET r == IF _spiPort = "null" THEN SpiRet(<<>>, ksfTkErrBusNotInit)
             ELSE SpiRet(SpiFrame(<<SpiTransfer16(devReg, 0)>> \o SpiSend(data)),
                         ksfTkErrOk)
    IN SpiDone(SpiCallOf("writeRegister16Region", devReg, data, 0), r.w, r.ret,
               0, 0, NoBus)

\* writeRegister16Region16(uint16_t devReg, const uint16_t *data, size_t length)
SPI_writeRegister16Region16(devReg, data) ==
    LET r == IF _spiPort = "null" THEN SpiRet(<<>>, ksfTkErrBusNotInit)
             ELSE SpiRet(SpiFrame(<<SpiTransfer16(devReg, 0)>> \o SpiSend16(data)),
                         ksfTkErrOk)
    IN SpiDone(SpiCallOf("writeRegister16Region16", devReg, data, 0), r.w, r.ret,
               0, 0, NoBus)

\* what the port answers to numBytes transfers
SpiGot(n) == {SubSeq(d, 1, n) : d \in DeviceData}
SpiGot16(n) == {SubSeq(w, 1, n) : w \in {<<4660, 255>>, <<43981, 1>>}}

\* readRegisterRegion(uint8_t devReg, uint8_t *data, size_t numBytes, size_t
\* &readBytes) into a buffer that exists, the port answering got: the calls,
\* the return value and readBytes (0: the caller's value, left alone)
SPI_readRegisterRegion_do(devReg, got) ==
    IF _spiPort = "null" THEN [w |-> <<>>, ret |-> ksfTkErrBusNotInit, rb |-> 0]
    ELSE [w |-> SpiFrame(<<SpiTransfer(WithReadBit(devReg), 0)>> \o SpiReceive(got)),
          ret |-> ksfTkErrOk, rb |-> Len(got)]

\* the call has stopped in a store through a null pointer, after the calls w
SpiFault(c, w) ==
    /\ pc = "idle"
    /\ pc' = "fault"
    /\ call' = c
    /\ wire' = w
    /\ UNCHANGED <<extVars, host, _byteOrder, cfgVars, numBytes, nOrig, bFirstInter,
                   nCopied, readBytes, retval, busVars>>

\* a read of n items whose data pointer is null or a buffer: with a buffer, or
\* with nothing to store, the call runs as r describes; a store through the
\* null pointer (*data++ = transfer(0x00)) either lands at address 0, and the
\* call goes on as with a buffer, or stops the program after the first
\* transfer of the loop, whose calls so far are w1
SpiReadOutcome(c, data, n, r, value, w1) ==
    IF data = "buf" \/ n = 0 \/ _spiPort = "null"
      THEN SpiDone(c, r.w, r.ret, r.rb, IF _spiPort = "null" THEN 0 ELSE n, value)
      ELSE \/ SpiDone(c, r.w, r.ret, r.rb, n, value)
           \/ SpiFault(c, w1)

SPI_readRegisterRegion(devReg, data, n) ==
    \E got \in SpiGot(n) :
      LET c == SpiCallOf("readRegisterRegion", devReg, data, n)
          r == SPI_readRegisterRegion_do(devReg, got)
          w1 == <<SpiBeginTx, SpiCS(_cs, 0), SpiTransfer(WithReadBit(devReg), 0),
                  SpiTransfer(0, got[1])>>
      IN SpiReadOutcome(c, data, n, r, Result(r.ret, got, r.rb), w1)

\* readRegisterByte(uint8_t devReg, uint8_t &data)
SPI_readRegisterByte(devReg) ==
    \E got \in SpiGot(1) :
      LET r == SPI_readRegisterRegion_do(devReg, got)
          ret == IF r.ret = ksfTkErrOk /\ r.rb = 1 THEN ksfTkErrOk ELSE r.ret
      IN SpiDone(SpiCallOf("readRegisterByte", devReg, "buf", 1), r.w, ret, 0,
                 IF _spiPort = "null" THEN 0 ELSE 1, Result(ret, got[1], 1))

\* readRegisterWord(uint8_t devReg, uint16_t &data)
SPI_readRegisterWord(devReg) ==
    \E got \in SpiGot(2) :
      LET r == SPI_readRegisterRegion_do(devReg, got)
          ret == IF r.ret = ksfTkErrOk /\ r.rb = 2 THEN ksfTkErrOk ELSE r.ret
      IN SpiDone(SpiCallOf("readRegisterWord", devReg, "buf", 2), r.w, ret, 0,
                 IF _spiPort = "null" THEN 0 ELSE 2, Result(ret, Val16(got), 2))

\* readRegister16Region(uint16_t devReg, uint8_t *data, size_t numBytes, size_t
\* &readBytes)
SPI_readRegister16Region(devReg, data, n) ==
    \E got \in SpiGot(n) :
      LET c == SpiCallOf("readRegister16Region", devReg, data, n)
          first == SpiTransfer16(WithReadBit(devReg), 0)
          r == IF _spiPort = "null"
                 THEN [w |-> <<>>, ret |-> ksfTkErrBusNotInit, rb |-> 0]
                 ELSE [w |-> SpiFrame(<<first>> \o SpiReceive(got)),
                       ret |-> ksfTkErrOk, rb |-> n]
          w1 == <<SpiBeginTx, SpiCS(_cs, 0), first, SpiTransfer(0, got[1])>>
      IN SpiReadOutcome(c, data, n, r, Result(r.ret, got, r.rb), w1)

\* readRegister16Region16(uint16_t devReg, uint16_t *data, size_t numBytes,
\* size_t &readWords): numBytes counts words
SPI_readRegister16Region16(devReg, data, n) ==
    \E got \in SpiGot16(n) :
      LET c == SpiCallOf("readRegister16Region16", devReg, data, n)
          first == SpiTransfer16(devReg, 0)
          r == IF _spiPort = "null"
                 THEN [w |-> <<>>, ret |-> ksfTkErrBusNotInit, rb |-> 0]
                 ELSE [w |-> SpiFrame(<<first>> \o SpiReceive16(got)),
                       ret |-> ksfTkErrOk, rb |-> n]
          w1 == <<SpiBeginTx, SpiCS(_cs, 0), first, SpiTransfer16(0, got[1])>>
      IN SpiReadOutcome(c, data, n, r, Result(r.ret, got, r.rb), w1)

SpiReadLengths == 0 .. 2

\* SpecSPI: an SPI bus and the configuration of an I2C bus
NextSPI ==
    \/ \E c \in Pins : setCS(c)
    \/ \E p \in SpiPorts, t \in Settings, c \in Pins, b \in BOOLEAN : SPI_init(p, t, c, b)
    \/ \E c \in Pins, b \in BOOLEAN : SPI_init_cs(c, b)
    \/ \E b \in BOOLEAN : SPI_init_bool(b)
    \/ \E d \in Bytes : SPI_writeByte(d)
    \/ \E d \in Words : SPI_writeWord(d)
    \/ \E d \in Buffers : SPI_writeRegion(d)
    \/ \E r \in Regs8, d \in Bytes : SPI_writeRegisterByte(r, d)
    \/ \E r \in Regs8, d \in Words : SPI_writeRegisterWord(r, d)
    \/ \E r \in Regs8, d \in Buffers : SPI_writeRegisterRegion(r, d)
    \/ \E r \in Regs16, d \in Buffers : SPI_writeRegister16Region(r, d)
    \/ \E r \in Regs16, d \in WordArrays : SPI_writeRegister16Region16(r, d)
    \/ \E r \in Regs8 : SPI_readRegisterByte(r)
    \/ \E r \in Regs8 : SPI_readRegisterWord(r)
    \/ \E r \in Regs8, d \in Pointers, n \in SpiReadLengths : SPI_readRegisterRegion(r, d, n)
    \/ \E r \in Regs16, d \in Pointers, n \in SpiReadLengths :
         SPI_readRegister16Region(r, d, n)
    \/ \E r \in Regs16, d \in Pointers, n \in SpiReadLengths :
         SPI_readRegister16Region16(r, d, n)
    \/ \E a \in Addrs : setAddress(a)
    \/ \E p \in Ports, a \in Addrs, b \in BOOLEAN : init(p, a, b)
    \/ \E a \in Addrs : init_addr(a)
    \/ init_void
    \/ \E r \in Regs8, d \in Bytes : I2C_writeRegisterByte(r, d)
    \/ \E r \in Regs8 : I2C_readRegisterByte(r)
    \/ Return

SpecSPI == Init /\ [][NextSPI]_vars

(***************************************************************************)
(* SpecSerial: the stream adapter sfTkISerialBus, its write and read given *)
(* by sfTkArdUARTBus over a sfTkArdUART.  wire holds the calls on the      *)
(* adapter's write / read and, after each, the call it made on the stream. *)
(***************************************************************************)
\* the adapter's write(data, length) / read(data, length, readBytes) returning r
SerWrite(b, r) ==
    [op |-> "write", addr |-> 0, bytes |-> b, n |-> Len(b),
     stop |-> FALSE, ret |-> r, rem |-> 0]
SerRead(k, r) ==
    [op |-> "read", addr |-> 0, bytes |-> <<>>, n |-> k,
     stop |-> FALSE, ret |-> r, rem |-> 0]
\* _hwSerial->write(data, len) returning k, _hwSerial->readBytes(data, length)
\* returning k
HwWrite(b, k) ==
    [op |-> "Stream::write", addr |-> 0, bytes |-> b, n |-> Len(b),
     stop |-> FALSE, ret |-> k, rem |-> 0]
HwReadBytes(n, k) ==
    [op |-> "Stream::readBytes", addr |-> 0, bytes |-> <<>>, n |-> n,
     stop |-> FALSE, ret |-> k, rem |-> 0]

\* sfTkArdUART::write(const uint8_t *data, size_t len), the stream taking k bytes
UART_write(data, k) ==
    IF _hwSerial = "null" THEN [w |-> <<>>, ret |-> ksfTkErrSerialNotInit]
    ELSE [w |-> <<HwWrite(data, k)>>,
          ret |-> IF k = Len(data) THEN ksfTkErrOk ELSE ksfTkErrSerialUnderRead]

\* sfTkArdUARTBus::write
UARTBus_write(data, k) ==
    LET r == IF _uartPort = "null" THEN [w |-> <<>>, ret |-> ksfTkErrBusNotInit]
             ELSE UART_write(data, k)
    IN [w |-> <<SerWrite(data, r.ret)>> \o r.w, ret |-> r.ret]

\* sfTkArdUART::read(uint8_t *data, size_t length, size_t &bytesRead), the
\* stream giving k bytes; rb: bytesRead (0: the caller's value, left alone)
UART_read(data, length, k) ==
    IF _hwSerial = "null" THEN [w |-> <<>>, ret |-> ksfTkErrSerialNotInit, rb |-> 0]
    ELSE IF data = "null" THEN [w |-> <<>>, ret |-> ksfTkErrSerialNullBuffer, rb |-> 0]
    ELSE IF length = 0 THEN [w |-> <<>>, ret |-> ksfTkErrSerialDataTooLong, rb |-> 0]
    ELSE [w |-> <<HwReadBytes(length, k)>>,
          ret |-> IF k = 0 THEN ksfTkErrFail
                  ELSE IF k = length THEN ksfTkErrOk ELSE ksfTkErrSerialUnderRead,
          rb |-> k]

\* sfTkArdUARTBus::read
UARTBus_read(data, length, k) ==
    LET r == IF _uartPort = "null"
               THEN [w |-> <<>>, ret |-> ksfTkErrBusNotInit, rb |-> 0]
               ELSE UART_read(data, length, k)
    IN [w |-> <<SerRead(length, r.ret)>> \o r.w, ret |-> r.ret, rb |-> r.rb]

SerCallOf(op, devNull, devReg, data, n) ==
    [op |-> op, via |-> op, devNull |-> devNull, devReg |-> devReg,
     regLength |-> Len(devReg), data |-> data, numBytes |-> n]

SerDone(c, w, r, rb) ==
    /\ pc = "idle"
    /\ pc' = "done"
    /\ call' = c
    /\ wire' = w
    /\ retval' = r
    /\ readBytes' = rb
    /\ nCopied' = rb
    /\ UNCHANGED <<extVars, host, _byteOrder, cfgVars, numBytes, nOrig, bFirstInter,
                   busVars>>

\* how many bytes the stream takes of b: all, or one less
Taken(b) == {Len(b)} \cup (IF Len(b) > 0 THEN {Len(b) - 1} ELSE {})

\* the address written first by the read, its result dropped
readRegister_serial_ignoreAddressResult(devNull, devReg, data, n) ==
    \E k1 \in Taken(devReg), k \in 0 .. n :
      LET c == SerCallOf("sfTkISerialBus::readRegister", devNull, devReg, data, n)
          a == IF ~devNull /\ Len(devReg) > 0 THEN UARTBus_write(devReg, k1)
               ELSE [w |-> <<>>, ret |-> ksfTkErrOk]
          r == UARTBus_read(data, n, k)
      IN IF data = "null" THEN SerDone(c, <<>>, ksfTkErrBusNullBuffer, 0)
         ELSE SerDone(c, a.w \o r.w, r.ret, r.rb)

\* sfTkISerialBus::readRegister(uint8_t *devReg, size_t regLength, uint8_t *data,
\* size_t numBytes, size_t &readBytes)
readRegister_serial(devNull, devReg, data, n) ==
    \E k1 \in Taken(devReg), k \in 0 .. n :
      LET c == SerCallOf("sfTkISerialBus::readRegister", devNull, devReg, data, n)
          a == IF ~devNull /\ Len(devReg) > 0 THEN UARTBus_write(devReg, k1)
               ELSE [w |-> <<>>, ret |-> ksfTkErrOk]
          r == UARTBus_read(data, n, k)
      IN IF data = "null" THEN SerDone(c, <<>>, ksfTkErrBusNullBuffer, 0)
         ELSE IF a.ret # ksfTkErrOk THEN SerDone(c, a.w, a.ret, 0)
         ELSE SerDone(c, a.w \o r.w, r.ret, r.rb)

\* sfTkISerialBus::writeRegister(uint8_t *devReg, size_t regLength,
\* const uint8_t *data, size_t length)
writeRegister_serial(devNull, devReg, data) ==
    \E k1 \in Taken(devReg), k2 \in Taken(data) :
      LET c == SerCallOf("sfTkISerialBus::writeRegister", devNull, devReg, data, Len(data))
          a == IF ~devNull /\ Len(devReg) > 0 THEN UARTBus_write(devReg, k1)
               ELSE [w |-> <<>>, ret |-> ksfTkErrOk]
          d == UARTBus_write(data, k2)
      IN SerDone(c, a.w \o d.w, d.ret, 0)

\* sfTkArdUARTBus(void); sfTkArdUARTBus(uartPort) on a port made by
\* sfTkArdUART(void) or by sfTkArdUART(hwSerial)
InitSerial ==
    /\ InitCommon
    /\ InitI2C
    /\ \/ InitUARTBus
       \/ _uartPort = "uart" /\ _hwSerial \in {"null", "Serial"}

SerialAddresses ==
    {[null |-> FALSE, bytes |-> <<16>>], [null |-> FALSE, bytes |-> <<42, 16>>],
     [null |-> TRUE, bytes |-> <<>>], [null |-> FALSE, bytes |-> <<>>]}
SerialData == Buffers \cup {<<52>>, <<>>}

NextSerial ==
    \/ \E a \in SerialAddresses, d \in SerialData : writeRegister_serial(a.null, a.bytes, d)
    \/ \E a \in SerialAddresses, d \in Pointers, n \in 0 .. 2 :
         readRegister_serial(a.null, a.bytes, d, n)
    \/ Return

SpecSerial == InitSerial /\ [][NextSerial]_vars

(***************************************************************************)
(* SpecUART: the lifecycle of one sfTkArdUART: its init overloads, the     *)
(* setters, which all end in _start(), and end().  The values of _config   *)
(* play no part in which calls are made on the port and are left out.      *)
(* a is what availableForWrite() reports right after begin().              *)
(***************************************************************************)
HwBegin(port) ==
    [op |-> "begin", addr |-> 0, bytes |-> <<port>>, n |-> 0,
     stop |-> FALSE, ret |-> 0, rem |-> 0]
HwEnd(port) ==
    [op |-> "end", addr |-> 0, bytes |-> <<port>>, n |-> 0,
     stop |-> FALSE, ret |-> 0, rem |-> 0]
HwAvailableForWrite(port, a) ==
    [op |-> "availableForWrite", addr |-> 0, bytes |-> <<port>>, n |-> 0,
     stop |-> FALSE, ret |-> a, rem |-> 0]

UartPorts == {"Serial", "Serial1"}
\* what availableForWrite() may report: no room, or the free transmit buffer
WriteRoom == {0, 64}
UartSetters == {"setBaudRate", "setStopBits", "setParity", "setDataBits", "setConfig"}

\* a call that leaves the port as it is and returns r
UartKeep(r) == [w |-> <<>>, ret |-> r, running |-> _running, open |-> hwOpen]

\* sfTkError_t _start() on _hwSerial = port: the calls made, the return
\* value, _running and the open ports after it
UART_start(port, a) ==
    IF port = "null" THEN UartKeep(ksfTkErrSerialNotInit)
    ELSE [w |-> (IF _running THEN <<HwEnd(port)>> ELSE <<>>)
                  \o <<HwBegin(port), HwAvailableForWrite(port, a)>>,
          ret |-> IF a = 0 THEN ksfTkErrSerialNotInit ELSE ksfTkErrOk,
          running |-> a # 0,
          open |-> (IF _running THEN hwOpen \ {port} ELSE hwOpen) \cup {port}]

UartCallOf(op, bInit) == [op |-> op, bInit |-> bInit, port |-> _hwSerial]

\* a lifecycle call c returns, r telling what it did, with _hwSerial = port
UartDone(c, port, r) ==
    /\ pc = "idle"
    /\ pc' = "done"
    /\ call' = c
    /\ wire' = r.w
    /\ retval' = r.ret
    /\ _hwSerial' = port
    /\ _running' = r.running
    /\ hwOpen' = r.open
    /\ UNCHANGED <<mock, spiVars, _uartPort, host, _byteOrder, cfgVars, numBytes, nOrig,
                   bFirstInter, nCopied, readBytes, busVars>>

\* init(Stream &hwStream, uint32_t baudRate, bool bInit) and
\* init(Stream &hwStream, UARTConfig_t &config, bool bInit): what the call does
UART_init_stream_do(hwStream, bInit, a) ==
    IF bInit THEN UART_start(hwStream, a) ELSE UartKeep(ksfTkErrOk)

UART_init_stream(hwStream, bInit) ==
    \E a \in WriteRoom :
      UartDone(UartCallOf("init(hwStream)", bInit), hwStream,
               UART_init_stream_do(hwStream, bInit, a))

\* init(uint32_t baudRate, bool bInit): init(Serial, baudRate, bInit) with no
\* port, else setBaudRate(baudRate)
UART_init_baud(bInit) ==
    \E a \in WriteRoom :
      LET c == UartCallOf("init(baudRate)", bInit)
      IN IF _hwSerial = "null"
           THEN UartDone(c, "Serial", UART_init_stream_do("Serial", bInit, a))
           ELSE UartDone(c, _hwSerial, UART_start(_hwSerial, a))

\* init(void): init(kDefaultBaudRate, true)
UART_init_void ==
    \E a \in WriteRoom :
      LET c == UartCallOf("init()", TRUE)
      IN IF _hwSerial = "null"
           THEN UartDone(c, "Serial", UART_init_stream_do("Serial", TRUE, a))
           ELSE UartDone(c, _hwSerial, UART_start(_hwSerial, a))

\* init(UARTConfig_t config, bool bInit)
UART_init_config(bInit) ==
    \E a \in WriteRoom :
      IF _hwSerial = "null"
        THEN UartDone(UartCallOf("init(config)", bInit), "Serial",
                      UART_init_stream_do("Serial", bInit, a))
        ELSE UartDone(UartCallOf("init(config)", bInit), _hwSerial,
                      IF bInit THEN UART_start(_hwSerial, a) ELSE UartKeep(ksfTkErrOk))

\* setBaudRate, setStopBits, setParity, setDataBits, setConfig: return _start()
UART_set(op) ==
    \E a \in WriteRoom : UartDone(UartCallOf(op, FALSE), _hwSerial, UART_start(_hwSerial, a))

\* void end(): _running = false; _hwSerial->end().  With no port the call
\* through the null pointer stops the program
UART_end ==
    IF _hwSerial = "null"
      THEN /\ pc = "idle"
           /\ pc' = "fault"
           /\ call' = UartCallOf("end", FALSE)
           /\ _running' = FALSE
           /\ UNCHANGED <<mock, spiVars, _uartPort, _hwSerial, hwOpen, host, _byteOrder,
                          cfgVars, numBytes, nOrig, bFirstInter, nCopied, readBytes,
                          retval, wire, busVars>>
      ELSE UartDone(UartCallOf("end", FALSE), _hwSerial,
                    [w |-> <<HwEnd(_hwSerial)>>, ret |-> ksfTkErrOk,
                     running |-> FALSE, open |-> hwOpen \ {_hwSerial}])

\* sfTkArdUART(void), sfTkArdUART(baudRate), sfTkArdUART(config): no port;
\* sfTkArdUART(SerialType &hwSerial): that port
InitUART ==
    /\ InitCommon
    /\ InitI2C
    /\ _uartPort = "null"
    /\ _hwSerial \in {"null", "Serial"}

NextUART ==
    \/ \E p \in UartPorts, b \in BOOLEAN : UART_init_stream(p, b)
    \/ \E b \in BOOLEAN : UART_init_baud(b)
    \/ \E b \in BOOLEAN : UART_init_config(b)
    \/ UART_init_void
    \/ \E op \in UartSetters : UART_set(op)
    \/ UART_end
    \/ Return

SpecUART == InitUART /\ [][NextUART]_vars

(***************************************************************************)
(* Properties                                                              *)
(***************************************************************************)
RECURSIVE SumRet(_)
\* the bytes the port supplied over the requests r
SumRet(r) == IF r = <<>> THEN 0 ELSE Head(r).ret + SumRet(Tail(r))

TypedReads ==
    {"readRegister_u8_u8", "readRegister_u8_u16", "readRegister_u8_u32",
     "readRegister_u16_u8", "readRegister_u16_u16", "readRegister_u16_u32"}

\* a chunked read that passed both guards has returned
ReadDone ==
    /\ pc = "done"
    /\ call.op = "readRegisterRegionAnyAddress"
    /\ _i2cPort # "null"
    /\ call.data = "buf"

\* a chunked read that passed both guards is running or has returned
InRead ==
    /\ call.op = "readRegisterRegionAnyAddress"
    /\ _i2cPort # "null"
    /\ call.data = "buf"

\* C1: a typed read accessor (8/16/32-bit value, 8- or 16-bit register address)
\* whose primitive reported a byte count other than the value's width never
\* returns ksfTkErrOk, also when the primitive returned ksfTkErrOk.
C1_WidthMismatchRejected ==
    (acc.op \in TypedReads /\ Len(prim.rsp.data) # acc.width) => out.ret # ksfTkErrOk

\* C2: when a chunk request returns zero bytes the read has returned
\* ksfTkErrBusUnderRead and readBytes is the number of bytes collected in the
\* chunks before the failing one.
C2_ShortChunkAbort ==
    LET R == Requests
    IN (InRead /\ R # <<>> /\ R[Len(R)].ret = 0)
         => /\ pc = "done"
            /\ retval = ksfTkErrBusUnderRead
            /\ readBytes = SumRet(R)

\* C3: for chunk size C and length N in {0, 1, C-1, C, C+1, 5C}, over a port
\* whose transactions succeed: if every chunk request was supplied in full the
\* read made ceil(N/C) chunk requests, and if no chunk returned zero bytes
\* readBytes is the sum of the bytes supplied, which is N.
C3_ChunkingCorrect ==
    LET C == _bufferChunkSize
        N == call.numBytes
        R == Requests
        E == Ends
    IN (/\ ReadDone
        /\ N \in {0, 1, C - 1, C, C + 1, 5 * C}
        /\ \A i \in 1 .. Len(E) : E[i].ret = 0)
         => /\ (\A i \in 1 .. Len(R) : R[i].ret = R[i].n)
                 => Len(R) = CeilDiv(N, C)
            /\ (\A i \in 1 .. Len(R) : R[i].ret # 0)
                 => /\ readBytes = SumRet(R)
                    /\ readBytes = N

\* C4 as stated: whatever the configured stop flag, a chunk request that does
\* not finish the requested total is issued without stop.
C4_StopOnlyOnFinal ==
    LET R == Requests
    IN InRead => \A i \in 1 .. Len(R) : R[i].n # R[i].rem => R[i].stop = FALSE

\* C4 amended: a chunk request that does not finish the requested total is
\* issued with the configured stop flag (without stop when the flag is false,
\* with stop when it is true), and a request for all the remaining bytes is
\* issued with stop.
C4_StopFollowsFlag ==
    LET R == Requests
    IN InRead => \A i \in 1 .. Len(R) :
                    R[i].stop = (IF R[i].n = R[i].rem THEN TRUE ELSE _stop)

C4_Witness ==
    LET R == Requests
    IN /\ ReadDone
       /\ ~_stop
       /\ retval = ksfTkErrOk
       /\ Len(R) = 3
       /\ R[1].stop = FALSE
       /\ R[2].stop = FALSE
       /\ R[3].stop = TRUE

\* C5: with setStop(false), in a read that needs two chunks (C < N <= 2C) the
\* address phase ends with restart, chunk 1 is requested with restart and,
\* chunk 1 having been supplied in full, chunk 2 is requested with stop.
C5_TwoChunkFraming ==
    LET C == _bufferChunkSize
        N == call.numBytes
        R == Requests
        E == Ends
    IN (InRead /\ ~_stop /\ C < N /\ N <= 2 * C)
         => /\ Len(E) >= 1 => E[1].stop = FALSE
            /\ Len(R) >= 1 => R[1].stop = FALSE
            /\ (Len(R) >= 2 /\ R[1].ret = C) => R[2].stop = TRUE

C5_Witness ==
    LET R == Requests
        E == Ends
    IN /\ ReadDone
       /\ ~_stop
       /\ _bufferChunkSize = 2
       /\ call.numBytes = 4
       /\ retval = ksfTkErrOk
       /\ Len(R) = 2
       /\ E[1].stop = FALSE
       /\ R[1].stop = FALSE
       /\ R[2].stop = TRUE

\* C6: once the address phase of a read has ended with a non-zero
\* endTransmission result, the read has returned ksfTkErrFail with readBytes
\* 0, no chunk was requested and the address phase was run once.
C6_AddressPhaseFailure ==
    LET E == Ends
    IN (InRead /\ \E i \in 1 .. Len(E) : E[i].ret # 0)
         => /\ pc = "done"
            /\ retval = ksfTkErrFail
            /\ readBytes = 0
            /\ Requests = <<>>
            /\ Len(Begins) = 1
            /\ Len(E) = 1

C6_Witness ==
    LET E == Ends
    IN /\ ReadDone
       /\ call.numBytes = 3
       /\ Len(E) = 1
       /\ E[1].ret # 0
       /\ retval = ksfTkErrFail

\* C7: a read on an initialized bus with a non-null buffer returns ksfTkErrOk
\* exactly when readBytes equals the requested length, and every return with
\* readBytes below the requested length carries a non-Ok code.
C7_OkIffComplete ==
    ReadDone => /\ (retval = ksfTkErrOk) <=> (readBytes = call.numBytes)
                /\ readBytes < call.numBytes => retval # ksfTkErrOk

RECURSIVE SentBytes(_)
\* the bytes handed to TwoWire::write over the events w, in order
SentBytes(w) ==
    IF w = <<>> THEN <<>>
    ELSE (IF Head(w).op = "write" THEN Head(w).bytes ELSE <<>>) \o SentBytes(Tail(w))

\* C8: on a little-endian host, writeRegister(uint8_t 0x10, uint16_t 0x1234)
\* on an I2C bus hands the port [0x10, 0x34, 0x12] when the bus byte order is
\* LittleEndian and [0x10, 0x12, 0x34] when it is BigEndian, within one
\* beginTransmission .. endTransmission.
C8_EndToEndBytes ==
    (/\ pc = "done"
     /\ call.op = "writeRegisterRegionAddress"
     /\ _i2cPort # "null"
     /\ host = LittleEndian
     /\ acc.op = "writeRegister_u8_u16"
     /\ acc.reg = 16
     /\ acc.value = 4660)
      => /\ SentBytes(wire) = (IF _byteOrder = LittleEndian THEN <<16, 52, 18>>
                                                             ELSE <<16, 18, 52>>)
         /\ Len(Begins) = 1
         /\ Len(Ends) = 1
         /\ wire[1].op = "beginTransmission"
         /\ wire[Len(wire)].op = "endTransmission"

C8_Witness ==
    /\ pc = "done"
    /\ call.op = "writeRegisterRegionAddress"
    /\ host = LittleEndian
    /\ _byteOrder = BigEndian
    /\ acc.op = "writeRegister_u8_u16"
    /\ acc.reg = 16
    /\ acc.value = 4660
    /\ retval = ksfTkErrOk
    /\ SentBytes(wire) = <<16, 18, 52>>

\* accessors taking a 16-bit / an 8-bit register address
Addr16Ops ==
    {"writeRegister_u16_buf", "writeRegister_u16_u8", "writeRegister_u16_u16",
     "writeRegister_u16_u32", "writeRegister_u16_words", "readRegister_u16_buf",
     "readRegister_u16_u8", "readRegister_u16_u16", "readRegister_u16_u32",
     "readRegister_u16_words"}
Addr8Ops ==
    {"writeRegister_u8_u8", "writeRegister_u8_u16", "writeRegister_u8_u32",
     "writeRegister_u8_buf", "readRegister_u8_u8", "readRegister_u8_u16",
     "readRegister_u8_u32", "readRegister_u8_buf"}
WordArrayOps == {"writeRegister_u16_words", "readRegister_u16_words"}

RECURSIVE RevWords(_)
\* the bytes of a uint16_t array, each element's two bytes exchanged
RevWords(w) == IF w = <<>> THEN <<>> ELSE Reverse(Mem16(Head(w))) \o RevWords(Tail(w))

\* the object bytes of value v as accessor op with data width w takes it
HostBytes(op, w, v) ==
    IF w = 1 THEN <<v>>
    ELSE IF w = 2 THEN Mem16(v)
    ELSE IF w = 4 THEN Mem32(v)
    ELSE IF op \in WordArrayOps THEN MemWords(v)
    ELSE v

\* the same with every 16- and 32-bit quantity byte-reversed
ReversedBytes(op, w, v) ==
    IF w = 1 THEN <<v>>
    ELSE IF w = 2 THEN Reverse(Mem16(v))
    ELSE IF w = 4 THEN Reverse(Mem32(v))
    ELSE IF op \in WordArrayOps THEN RevWords(v)
    ELSE v

\* the data bytes the primitive was handed for the caller's value; for
\* writeRegister(uint16_t, uint16_t) these are the first two of the four
HandedData ==
    IF acc.op = "writeRegister_u16_u16" THEN SubSeq(prim.data, 1, 2) ELSE prim.data

\* C9: when the bus byte order differs from the host's, every 16-bit register
\* address and every word/dword value a write accessor hands to the primitive
\* is the byte-reversal of the caller's value, and the value a successful read
\* returns is the byte-reversal of what the primitive stored.
C9_SwappedExactlyOnce ==
    (host # _byteOrder /\ acc.op # "none")
      => /\ acc.op \in Addr16Ops => prim.devReg = Reverse(Mem16(acc.reg))
         /\ prim.kind = "write" => HandedData = ReversedBytes(acc.op, acc.width, acc.value)
         /\ (prim.kind = "read" /\ out.ret = ksfTkErrOk)
               => ReversedBytes(acc.op, acc.width, out.value) = prim.buf

C9_Witness ==
    /\ host # _byteOrder
    /\ acc.op = "readRegister_u16_u16"
    /\ acc.reg = 272
    /\ out.ret = ksfTkErrOk
    /\ prim.devReg = Reverse(Mem16(272))
    /\ prim.buf = <<18, 52>>
    /\ Mem16(out.value) = <<52, 18>>

\* what C10 says of the states of a behaviour
C10_Unaltered ==
    (host = _byteOrder /\ acc.op # "none")
      => /\ acc.op \in Addr16Ops => prim.devReg = Mem16(acc.reg)
         /\ acc.op \in Addr8Ops => prim.devReg = <<acc.reg>>
         /\ prim.kind = "write" => HandedData = HostBytes(acc.op, acc.width, acc.value)
         /\ prim.kind = "read" => HostBytes(acc.op, acc.width, out.value) = prim.buf

\* C10: a bus is constructed with the host's byte order, and while the bus
\* byte order equals the host's no write accessor alters the address or data
\* bytes it hands to the primitive and no read accessor alters the bytes the
\* primitive stored (8-, 16-, 32-bit values, byte and word arrays).
C10_NoSwapWhenMatching == (host = _byteOrder) /\ []C10_Unaltered

C10_Witness ==
    /\ host = _byteOrder
    /\ acc.op = "writeRegister_u16_words"
    /\ acc.value = <<4660, 255>>
    /\ prim.devReg = Mem16(acc.reg)
    /\ prim.data = MemWords(<<4660, 255>>)

(***************************************************************************)
(* C11: with the bus order opposite to the host's at the write and at the  *)
(* read, a word array written with writeRegister(uint16_t, const uint16_t  *)
(* *, n) to a byte-storing transport and read back with readRegister(      *)
(* uint16_t, uint16_t *, n, read16) at the same register comes back        *)
(* unchanged, with the same address bytes on both paths and read16 = n.    *)
(***************************************************************************)
LoopReadBack ==
    /\ pc = "done"
    /\ acc.op = "readRegister_u16_words"
    /\ mock.from.op = "write"
    /\ mock.from.reg = acc.reg
    /\ Len(mock.from.value) = Len(acc.value)
    /\ mock.from.order = _byteOrder
    /\ NeedSwap

C11_RoundTrip16 ==
    LoopReadBack =>
        /\ out.ret = ksfTkErrOk
        /\ out.value = mock.from.value
        /\ out.count = Len(mock.from.value)
        /\ prim.devReg = mock.reg
        /\ prim.devReg = Reverse(Mem16(acc.reg))

C11_Witness ==
    /\ LoopReadBack
    /\ out.value = <<4660, 255>>
    /\ out.count = 2

(***************************************************************************)
(* C12: sftk_byte_swap applied twice to a 16-bit or 32-bit value, unsigned *)
(* or signed, gives the value back; applied to an 8-bit value it returns   *)
(* the value.                                                              *)
(***************************************************************************)
C12_SwapRoundTrip ==
    (pc = "done" /\ acc.op = "sftk_byte_swap") =>
        /\ out.count = 2 => out.value = acc.value
        /\ acc.width = "u8" => out.value = acc.value

\* int16_t -21555 (0xABCD) -> -12885 (0xCDAB) -> -21555
C12_Witness ==
    /\ pc = "done"
    /\ acc.op = "sftk_byte_swap"
    /\ acc.width = "i16"
    /\ acc.value = -21555
    /\ sftk_byte_swap_i16(acc.value) = -12885
    /\ out.count = 2
    /\ out.value = acc.value

(***************************************************************************)
(* C13: a read with a null data buffer on an initialized bus returns the   *)
(* null-buffer code and makes no transport call, in the I2C binding, in    *)
(* the SPI binding and in the stream-adapter bus.                          *)
(***************************************************************************)
SpiReadOps == {"readRegisterRegion", "readRegister16Region", "readRegister16Region16"}

\* a call that was handed a null data buffer on an initialized bus has run
NullReadI2C ==
    /\ pc \in {"done", "fault"}
    /\ call.op = "readRegisterRegionAnyAddress"
    /\ call.data = "null"
    /\ _i2cPort # "null"
NullReadSPI ==
    /\ pc \in {"done", "fault"}
    /\ call.op \in SpiReadOps
    /\ call.data = "null"
    /\ _spiPort # "null"
NullReadSerial ==
    /\ pc \in {"done", "fault"}
    /\ call.op = "sfTkISerialBus::readRegister"
    /\ call.data = "null"
    /\ _uartPort # "null"
    /\ _hwSerial # "null"

C13_NullReadRejected ==
    (NullReadI2C \/ NullReadSPI \/ NullReadSerial) =>
        /\ pc = "done"
        /\ retval = ksfTkErrBusNullBuffer
        /\ wire = <<>>

(***************************************************************************)
(* C15: a read through the I2C read primitive that is handed no register   *)
(* address (regLength 0 or a null devReg) sends no address phase: no       *)
(* beginTransmission, write or endTransmission precedes the chunk requests.*)
(***************************************************************************)
AddressPhaseOps == {"beginTransmission", "write", "endTransmission"}

C15_NoAddressPhase ==
    (/\ call.op = "readRegisterRegionAnyAddress"
     /\ call.devNull \/ call.regLength = 0) =>
        \A i \in 1 .. Len(wire) : wire[i].op \notin AddressPhaseOps

(***************************************************************************)
(* C14: every read and write function of the I2C binding called while no   *)
(* wire port is bound returns ksfTkErrBusNotInit and makes no call on a    *)
(* port.                                                                   *)
(***************************************************************************)
C14_NotInit ==
    (pc = "done" /\ call.op # "none" /\ _i2cPort = "null") =>
        /\ retval = ksfTkErrBusNotInit
        /\ wire = <<>>

(***************************************************************************)
(* C16: a register write of the I2C binding on an initialized bus is one   *)
(* transaction: one beginTransmission, the address bytes if there is an    *)
(* address, all the data bytes, one endTransmission; it returns ksfTkErrOk *)
(* exactly when endTransmission answers 0 and ksfTkErrFail otherwise.      *)
(***************************************************************************)
WriteDone ==
    /\ pc = "done"
    /\ call.op = "writeRegisterRegionAddress"
    /\ _i2cPort # "null"

C16_OneTransaction ==
    WriteDone =>
        LET n == Len(wire)
            address == IF ~prim.devNull /\ prim.regLength > 0 THEN prim.devReg ELSE <<>>
        IN /\ Len(Begins) = 1
           /\ Len(Ends) = 1
           /\ wire[1] = EvBegin(_address)
           /\ wire[n].op = "endTransmission"
           /\ \A i \in 2 .. n - 1 : wire[i].op = "write"
           /\ SentBytes(wire) = address \o prim.data
           /\ address # <<>> => wire[2].bytes = address
           /\ retval = ksfTkErrOk <=> wire[n].ret = 0
           /\ retval = ksfTkErrFail <=> wire[n].ret # 0

\* an addressed write whose transaction was not acknowledged
C16_Witness ==
    /\ WriteDone
    /\ acc.op = "writeRegister_u16_u32"
    /\ Len(wire) = 4
    /\ Len(SentBytes(wire)) = 6
    /\ wire[4].ret # 0
    /\ retval = ksfTkErrFail

(***************************************************************************)
(* C17: a read of zero bytes into a non-null buffer on an initialized bus  *)
(* is rejected with a failure code before any transport I/O, in the I2C    *)
(* binding and in the stream adapter over the UART: no address bytes are   *)
(* written and no bytes are requested.                                     *)
(***************************************************************************)
ZeroReadI2C ==
    /\ pc = "done"
    /\ call.op = "readRegisterRegionAnyAddress"
    /\ call.data = "buf"
    /\ call.numBytes = 0
    /\ _i2cPort # "null"
ZeroReadSerial ==
    /\ pc = "done"
    /\ call.op = "sfTkISerialBus::readRegister"
    /\ call.data = "buf"
    /\ call.numBytes = 0
    /\ _uartPort # "null"
    /\ _hwSerial # "null"

\* calls that put bytes on, or ask bytes from, the transport
TransportIO ==
    {"beginTransmission", "endTransmission", "requestFrom", "Stream::write",
     "Stream::readBytes"}

C17_ZeroLengthRejected ==
    (ZeroReadI2C \/ ZeroReadSerial) =>
        /\ retval < ksfTkErrOk
        /\ \A i \in 1 .. Len(wire) : wire[i].op \notin TransportIO

(***************************************************************************)
(* C18: sfTkISerialBus::writeRegister with a non-null, non-empty address   *)
(* calls write(address) then write(data), with no address only             *)
(* write(data); readRegister with an address calls write(address) then     *)
(* read(data), with no address only read(data); no other call is made.     *)
(***************************************************************************)
\* the calls made on the adapter's write and read, as (op, bytes, length)
AdapterCalls ==
    LET W == SelectSeq(wire, LAMBDA e : e.op \in {"write", "read"})
    IN [i \in 1 .. Len(W) |-> <<W[i].op, W[i].bytes, W[i].n>>]

SerialDone(op) == pc = "done" /\ call.op = op
HasAddress == ~call.devNull /\ call.regLength > 0
AddressWrite == IF HasAddress THEN <<<<"write", call.devReg, call.regLength>>>> ELSE <<>>

SerialWriteMapped ==
    SerialDone("sfTkISerialBus::writeRegister") =>
        AdapterCalls = AddressWrite \o <<<<"write", call.data, call.numBytes>>>>

C18_StreamMapping ==
    /\ SerialWriteMapped
    /\ SerialDone("sfTkISerialBus::readRegister") =>
         AdapterCalls = AddressWrite \o <<<<"read", <<>>, call.numBytes>>>>

\* C18 as the code has it: the read makes no call for a null data buffer, and
\* calls read(data) only if the address write returned ksfTkErrOk
C18_StreamMappingGuarded ==
    /\ SerialWriteMapped
    /\ SerialDone("sfTkISerialBus::readRegister") =>
         LET W == SelectSeq(wire, LAMBDA e : e.op = "write")
             addressed == HasAddress /\ call.data # "null"
         IN AdapterCalls =
              IF call.data = "null" THEN <<>>
              ELSE IF addressed /\ W[1].ret # ksfTkErrOk THEN AddressWrite
              ELSE AddressWrite \o <<<<"read", <<>>, call.numBytes>>>>

\* an addressed read whose address write came back short: no read follows
C18_Witness ==
    /\ SerialDone("sfTkISerialBus::readRegister")
    /\ call.data = "buf"
    /\ call.devReg = <<42, 16>>
    /\ call.numBytes = 2
    /\ retval = ksfTkErrSerialUnderRead
    /\ AdapterCalls = <<<<"write", <<42, 16>>, 2>>>>

(***************************************************************************)
(* C19: a default-constructed I2C bus has address() = kNoAddress and a     *)
(* default-constructed SPI bus has cs() = kNoCSPin; the address changes    *)
(* only in setAddress or an init call, the select pin only in setCS or an  *)
(* init call.                                                              *)
(***************************************************************************)
AddressSetter ==
    \/ \E a \in Addrs : setAddress(a)
    \/ \E p \in Ports, a \in Addrs, b \in BOOLEAN : init(p, a, b)
    \/ \E a \in Addrs : init_addr(a)

CSSetter ==
    \/ \E c \in Pins : setCS(c)
    \/ \E p \in SpiPorts, t \in Settings, c \in Pins, b \in BOOLEAN : SPI_init(p, t, c, b)

C19_Sentinels ==
    /\ _address = kNoAddress
    /\ _cs = kNoCSPin
    /\ [][/\ _address' # _address => AddressSetter
          /\ _cs' # _cs => CSSetter]_vars

\* both values set, both buses bound, and a read of the SPI bus has run since
C19_Witness ==
    /\ _address = 41
    /\ _cs = 10
    /\ _i2cPort # "null"
    /\ pc = "done"
    /\ call.op = "readRegisterWord"
    /\ _spiPort # "null"
    /\ retval = ksfTkErrOk

\* C20: the chunk size is always a positive integer, and it changes only by
\* setBufferChunkSize(n) with n > 0, which makes it n: setBufferChunkSize(0)
\* and every read and write leave it as it was
ChunkSetter == _bufferChunkSize' > 0 /\ setBufferChunkSize(_bufferChunkSize')

C20_ChunkSize ==
    /\ [](_bufferChunkSize \in Nat /\ _bufferChunkSize > 0)
    /\ [][_bufferChunkSize' # _bufferChunkSize => ChunkSetter]_vars

\* the same on a bus built by sfTkArdI2C(void), where the size starts at 32
C20_DefaultBus ==
    /\ _bufferChunkSize = kDefaultBufferChunk
    /\ C20_ChunkSize

\* C21: once an init call has bound the port of the I2C bus or of the SPI
\* bus, no later step changes that port or calls begin() on a port of that bus
C21_BoundOnce ==
    [][/\ _i2cPort # "null" =>
            /\ _i2cPort' = _i2cPort
            /\ begun' \cap Ports = begun \cap Ports
       /\ _spiPort # "null" =>
            /\ _spiPort' = _spiPort
            /\ begun' \cap SpiPorts = begun \cap SpiPorts]_vars

\* both buses bound without begin(), by init calls that named the second
\* port of each; every init from here on is a later init
C21_Witness ==
    /\ _i2cPort = "Wire1"
    /\ _spiPort = "SPI1"
    /\ begun = {}
    /\ _address = 41
    /\ _cs = 10

\* the bytes of the 16-bit value v in the bus byte order
Normalized16(v) == IF host # _byteOrder THEN Reverse(Mem16(v)) ELSE Mem16(v)

\* C22: writeRegister(uint16_t devReg, const uint16_t data) hands the
\* primitive exactly 2 address bytes and exactly 2 data bytes, both in the bus
\* byte order, and nothing beyond the value's own two bytes
C22_WordWrite ==
    acc.op = "writeRegister_u16_u16"
      => /\ prim.kind = "write"
         /\ prim.regLength = 2
         /\ prim.devReg = Normalized16(acc.reg)
         /\ prim.length = 2
         /\ prim.data = Normalized16(acc.value)

\* what holds of that call: the address is right and the value's two bytes
\* lead the data, followed by two bytes fetched from behind the parameter
C22_WordWriteFour ==
    acc.op = "writeRegister_u16_u16"
      => /\ prim.regLength = 2
         /\ prim.devReg = Normalized16(acc.reg)
         /\ prim.length = 4
         /\ SubSeq(prim.data, 1, 2) = Normalized16(acc.value)

\* a read or write of the SPI binding has returned
SpiCallDone == pc = "done" /\ DOMAIN call = DOMAIN SpiCallOf("", 0, <<>>, 0)

\* C23: every write and read of the SPI binding called while no SPI port is
\* bound returns ksfTkErrBusNotInit and touches neither the chip-select line
\* nor the port, writeWord and writeRegisterWord included
C23_SpiNotInit ==
    (SpiCallDone /\ _spiPort = "null") =>
        /\ retval = ksfTkErrBusNotInit
        /\ wire = <<>>

\* the functions that return a region write's result compared with '> 0'
SpiComparedOps == {"writeWord", "writeRegisterWord"}

\* what holds instead: no call touches the line or the port, every function
\* but the two compared ones returns ksfTkErrBusNotInit, and those two
\* return 0, which is ksfTkErrOk
C23_SpiNotInitCompared ==
    (SpiCallDone /\ _spiPort = "null") =>
        /\ wire = <<>>
        /\ retval = IF call.op \in SpiComparedOps THEN ksfTkErrOk ELSE ksfTkErrBusNotInit

\* C24: the chunked read terminates for every length N and chunk size C >= 1
\* when each request returns between 0 and the number asked for: in the loop
\* the bytes copied plus the remaining count is N and the count is never
\* negative, an iteration that does not abort lowers the count, and the loop
\* is left
C24_ReadTerminates ==
    /\ [](pc = "while" =>
            /\ numBytes >= 0
            /\ nCopied + numBytes = call.numBytes
            /\ nCopied <= call.numBytes)
    /\ [][(pc = "while" /\ ~bFirstInter /\ pc' = "while") => numBytes' < numBytes]_vars
    /\ (pc = "while" ~> pc # "while")

\* a read of five chunks of three bytes has completed
C24_Witness ==
    /\ pc = "done"
    /\ call.op = "readRegisterRegionAnyAddress"
    /\ _bufferChunkSize = 3
    /\ call.numBytes = 15
    /\ nCopied = 15
    /\ numBytes = 0
    /\ retval = ksfTkErrOk

\* C25: for every chunk size setBufferChunkSize accepts, sizes above 255
\* included, each chunk request of the read asks the port for exactly
\* min(remaining, chunkSize) bytes
C25_ChunkIsMin ==
    LET R == Requests
        C == _bufferChunkSize
    IN InRead => \A i \in 1 .. Len(R) : R[i].n = IF R[i].rem > C THEN C ELSE R[i].rem

\* what the 8-bit counter asks for: that number modulo 256
C25_ChunkIsMinMod ==
    LET R == Requests
        C == _bufferChunkSize
    IN InRead => \A i \in 1 .. Len(R) : R[i].n = ToU8(IF R[i].rem > C THEN C ELSE R[i].rem)

\* C26: in a read on a bus with setStop(false), a chunk request issued with
\* stop is the last call the read makes on the port, also when it returned
\* fewer bytes than asked
C26_StopIsLast ==
    (InRead /\ ~_stop) =>
        \A i \in 1 .. Len(wire) :
            (wire[i].op = "requestFrom" /\ wire[i].stop) => i = Len(wire)

\* what holds: a request issued with stop that returned all it asked for, or
\* nothing, is the last call; after one that returned some but not all, the
\* loop has gone on or will
C26_StopIsLastWhenFull ==
    (InRead /\ ~_stop) =>
        \A i \in 1 .. Len(wire) :
            (/\ wire[i].op = "requestFrom"
             /\ wire[i].stop
             /\ wire[i].ret \in {0, wire[i].n}) => i = Len(wire)

\* C27: after init(addr) has returned ksfTkErrOk, address() is addr, both
\* when the call bound the default wire port and when a port was bound before
C27_InitSetsAddress ==
    (pc = "done" /\ call.op = "init(addr)" /\ retval = ksfTkErrOk) => _address = call.devReg

\* what holds: init(addr) always returns ksfTkErrOk, and address() is addr
\* when the call found no port bound; init(wirePort, addr, bInit) sets the
\* address either way
C27_InitSetsAddressUnbound ==
    /\ (pc = "done" /\ call.op = "init(addr)") =>
          /\ retval = ksfTkErrOk
          /\ ~call.bound => (_address = call.devReg /\ _i2cPort = "Wire")
    /\ (pc = "done" /\ call.op = "init(wirePort, addr, bInit)") => _address = call.devReg

\* the adapter's write calls of the call that has returned
SerialWrites == SelectSeq(wire, LAMBDA e : e.op = "write")

\* an addressed writeRegister whose address write did not return ksfTkErrOk
AddressWriteFailed ==
    /\ SerialDone("sfTkISerialBus::writeRegister")
    /\ HasAddress
    /\ SerialWrites[1].ret # ksfTkErrOk

\* C28: if writing the register address returns a non-Ok code, writeRegister
\* returns a non-Ok code and does not write the data bytes
C28_AddressFailureAborts ==
    AddressWriteFailed =>
        /\ retval # ksfTkErrOk
        /\ AdapterCalls = AddressWrite

\* what holds: the data is written whatever the address write returned, and
\* writeRegister returns the result of the data write
C28_AddressResultDropped ==
    SerialDone("sfTkISerialBus::writeRegister") =>
        LET W == SerialWrites
        IN /\ Len(W) = IF HasAddress THEN 2 ELSE 1
           /\ W[Len(W)].bytes = call.data
           /\ retval = W[Len(W)].ret

\* a read or write of the SPI binding is the call of the frame, returned or not
SpiCallSeen == pc \in {"done", "fault"} /\ DOMAIN call = DOMAIN SpiCallOf("", 0, <<>>, 0)

SpiTransferOps == {"transfer", "transfer16"}

\* C29: a read or write of the SPI binding that returns on an initialized bus
\* has made, in order, beginTransaction, chip select LOW, its transfers and
\* nothing else, chip select HIGH, endTransaction, so that chip select is
\* HIGH and no transaction is open behind it; and every transfer, of a call
\* that returned or not, comes after beginTransaction and chip select LOW
\* with neither chip select HIGH nor endTransaction in between
C29_Framing ==
    LET n == Len(wire)
    IN /\ (SpiCallDone /\ _spiPort # "null") =>
             /\ n >= 4
             /\ wire[1] = SpiBeginTx
             /\ wire[2] = SpiCS(_cs, 0)
             /\ \A i \in 3 .. n - 2 : wire[i].op \in SpiTransferOps
             /\ wire[n - 1] = SpiCS(_cs, 1)
             /\ wire[n] = SpiEndTx
       /\ SpiCallSeen =>
             \A i \in 1 .. n :
                 wire[i].op \in SpiTransferOps =>
                     /\ i > 2
                     /\ wire[1] = SpiBeginTx
                     /\ wire[2] = SpiCS(_cs, 0)
                     /\ \A j \in 3 .. i : wire[j].op \in SpiTransferOps

\* a read of two 16-bit words at a 16-bit register has returned
C29_Witness ==
    /\ SpiCallDone
    /\ _spiPort = "SPI"
    /\ _cs = 10
    /\ call.op = "readRegister16Region16"
    /\ call.numBytes = 2
    /\ retval = ksfTkErrOk
    /\ Len(wire) = 7

\* a lifecycle call of the UART has returned
UartCallDone == pc = "done" /\ DOMAIN call = DOMAIN UartCallOf("", FALSE)

\* _running tells whether the bound port has been begun and not ended
C30_RunningIffBegun ==
    (pc \in {"idle", "done"} /\ _hwSerial # "null") => (_running <=> _hwSerial \in hwOpen)

\* no call begins a port that is open without ending it first
C30_NoDoubleBegin ==
    [][(pc = "idle" /\ UartCallDone') =>
         \A i \in 1 .. Len(wire') :
             wire'[i].op = "begin" =>
                 \/ wire'[i].bytes[1] \notin hwOpen
                 \/ \E j \in 1 .. i - 1 : wire'[j] = HwEnd(wire'[i].bytes[1])]_vars

\* C30: on a sfTkArdUART with a bound port, over any sequence of init,
\* setter and end calls, begin() is never called on a port that has been
\* begun and not ended, and _running is true exactly when the bound port has
\* been begun and not ended, also when availableForWrite() reports 0 right
\* after begin()
C30_Lifecycle ==
    /\ []C30_RunningIffBegun
    /\ C30_NoDoubleBegin

\* the flag is never true with no port begun
C30_RunningNeedsBegin == _running => hwOpen # {}

====
